---- MODULE Spec2Model ----
(***************************************************************************)
(* GigaChatClient (src/src/services/gigachat_client.py): the OAuth token   *)
(* cache and the retry wrapper every complete()/get_models() call goes     *)
(* through.                                                                *)
(*                                                                         *)
(* The clock `now` counts seconds.  A datetime is kept as its timestamp in *)
(* milliseconds, so datetime.fromtimestamp(expires_at / 1000) and the      *)
(* comparison against datetime.now() + timedelta(minutes=5) are exact.     *)
(* A coroutine runs atomically between two awaits; the awaits are the      *)
(* OAuth POST, the API request and asyncio.sleep.                          *)
(*                                                                         *)
(* AnalyzerService (src/src/services/analyzer_service.py): the chunking of *)
(* a transcript, the extraction of JSON from a reply, the merge of the     *)
(* batches' discussions, the enrichment and the link validation.  Each     *)
(* step has a specification of its own that draws the step's inputs and    *)
(* applies it; the variables of the other parts stay as constructed.       *)
(***************************************************************************)
EXTENDS Integers, Sequences, FiniteSets, TLC

VARIABLES
    now,               \* wall clock, seconds
    client,            \* self._client is set (__aenter__ has run)
    max_retries,       \* self._max_retries
    retry_delay,       \* self._retry_delay
    access_token,      \* self._access_token
    token_expires_at,  \* self._token_expires_at, as a timestamp in ms
    calls,             \* one record per coroutine running a client call
    chunking,          \* analyze(): msgs, batch_size and the chunks built from them
    extraction,        \* analyze(): a reply's text, the text extracted from it, its parse
    merging,           \* _merge_discussions: the records of all batches and the merged list
    classifying,       \* _calculate_priority: the three metrics and the priority
    validating,        \* _validate_links: the discussions, the username, the ids, the errors
    run,               \* one analyze() call: its arguments, its position, its locals
    analysis_repo,     \* the analysis stored for the run's chat and date, if any
    daemon,            \* AnalyzerDaemon and its EventSubscriber: the listen loop, the shutdowns
    task_queue         \* the Redis keys of the analysis queue, its producer and its workers

vars == <<now, client, max_retries, retry_delay, access_token, token_expires_at, calls>>

---------------------------------------------------------------------------
(* Bounds of the model *)

NumCallers == 2
MaxRetriesArg == 2
MaxTime == 4

MaxMessages == 10
MaxBatchSize == 4
MaxReplyLen == 6
MaxRecords == 3
MaxParticipantCount == 6
MaxMessageCount == 11
MaxPracticalValue == 10
MaxLinkCount == 2
MaxRunMessages == 5
MaxRunClock == 1
MaxEvents == 2
MaxQueueCalls == 2

(* Program constants *)

DefaultMaxRetries == 3
DefaultRetryDelay == 1
DefaultRetryAfter == 60
RefreshMarginMinutes == 5
KeywordCap == 5
DefaultComplexity == 2
DefaultPracticalValue == 5
DefaultBatchSize == 100

None == "None"          \* None where a str is expected
Absent == <<>>           \* None where a number, a datetime or a header is expected
Some(v) == <<v>>
Callers == 1..NumCallers

(* constructor arguments: 0 stands for a falsy argument (None or 0) *)
MaxRetriesArgs == {-1} \cup (0..MaxRetriesArg)
RetryDelayArgs == {0, 2}

(* what the token endpoint and the API can answer *)
Tokens == {"tokA", "tokB"}
TokenLives == {302}
TickSteps == {1}
Statuses == {200, 404, 429, 500}
DateHeader == <<"F", "r", "i", ",">>
RetryAfterHeaders == {Absent, Some(<<"1", "2", "0">>), Some(DateHeader)}

---------------------------------------------------------------------------
(* Python helpers *)

(* truth value of an Optional[str] *)
Truthy(v) == v # None /\ v # ""

(* `arg or default` for a number: 0 stands for both None and 0 *)
OrDefault(arg, default) == IF arg # 0 THEN arg ELSE default

Digits == <<"0", "1", "2", "3", "4", "5", "6", "7", "8", "9">>
IsDigit(ch) == \E i \in 1..10 : Digits[i] = ch
DigitVal(ch) == (CHOOSE i \in 1..10 : Digits[i] = ch) - 1

RECURSIVE DecimalValue(_)
DecimalValue(s) ==
    IF s = <<>> THEN 0
    ELSE 10 * DecimalValue(SubSeq(s, 1, Len(s) - 1)) + DigitVal(s[Len(s)])

(* int(text): the value of a decimal literal, ValueError for any other text *)
ParseInt(s) ==
    IF Len(s) > 0 /\ \A i \in 1..Len(s) : IsDigit(s[i])
    THEN [raised |-> FALSE, value |-> DecimalValue(s)]
    ELSE [raised |-> TRUE, value |-> 0]

(* int(response.headers.get("Retry-After", 60)) *)
RetryAfter(header) ==
    IF header = Absent
    THEN [raised |-> FALSE, value |-> DefaultRetryAfter]
    ELSE ParseInt(header[1])

TimedeltaMinutes(m) == m * 60

(* datetime.fromtimestamp(expires_at / 1000), kept in milliseconds *)
FromTimestampMs(expires_at) == expires_at

(* datetime.now() + timedelta(minutes=5) < expires *)
Fresh(t, expires) == (t + TimedeltaMinutes(RefreshMarginMinutes)) * 1000 < expires

CachedTokenValid_NoMargin ==
    /\ Truthy(access_token)
    /\ token_expires_at # Absent
    /\ now * 1000 < token_expires_at[1]

(* the test guarding the cached return of _get_access_token *)
CachedTokenValid ==
    /\ Truthy(access_token)
    /\ token_expires_at # Absent
    /\ Fresh(now, token_expires_at[1])

IsSuccess(status) == 200 <= status /\ status < 300

Backoff_Constant(attempt) == retry_delay

(* self._retry_delay * (2**attempt) *)
Backoff(attempt) == retry_delay * (2 ^ attempt)

---------------------------------------------------------------------------
(* exceptions (src/src/core/exceptions.py) and the outcome of a call *)

APIError(status) == [kind |-> "APIError", status_code |-> status]
AuthError == [kind |-> "AuthError", status_code |-> Some(401)]
RateLimitError(retry_after) ==
    [kind |-> "RateLimitError", status_code |-> Some(429), retry_after |-> retry_after]
TimeoutError == [kind |-> "TimeoutError", status_code |-> Absent]
Uncaught(name) == [kind |-> name]
Returned(status) == [kind |-> "response", status_code |-> Some(status)]

NoResult == [kind |-> "none"]
NoReply == [kind |-> "none"]

(* a coroutine that has not called the client *)
IdleCall ==
    [pc |-> "idle", attempt |-> 0, bearer |-> None, bearerExp |-> Absent,
     sentFresh |-> TRUE, exchanges |-> 0, oauth |-> NoReply, sent |-> 0,
     responses |-> <<>>, sleeps |-> <<>>, wakeAt |-> 0, result |-> NoResult]

Raise(call, exc) == [call EXCEPT !.pc = "done", !.result = exc]

(* self._client.request(...) of the loop body, at time t: the attempt goes out
   with the headers built once before the loop *)
SendAttempt(call, attempt, t) ==
    [call EXCEPT !.pc = "request", !.attempt = attempt, !.sent = @ + 1,
                 !.sentFresh = call.bearerExp # Absent /\ Fresh(t, call.bearerExp[1])]

(* for attempt in range(self._max_retries), entered with the resolved token *)
EnterLoop(call, token, expires) ==
    LET held == [call EXCEPT !.bearer = token, !.bearerExp = expires]
    IN  IF 0 < max_retries
        THEN SendAttempt(held, 0, now)
        ELSE Raise(held, APIError(Absent))

(* asyncio.sleep(delay); continue *)
SleepThenRetry(call, delay) ==
    [call EXCEPT !.pc = "sleep", !.sleeps = Append(@, delay),
                 !.wakeAt = now + (IF delay > 0 THEN delay ELSE 0)]

IsLastAttempt_OffByOne(call) == ~(call.attempt < max_retries)

(* the negation of `attempt < self._max_retries - 1` *)
IsLastAttempt(call) == ~(call.attempt < max_retries - 1)

(* except httpx.HTTPStatusError: raise GigaChatAPIError(status_code=...) *)
OnHTTPStatusError(call, status) == Raise(call, APIError(Some(status)))

OnRateLimit_Exponential(call, o) ==
    LET retry_after == RetryAfter(o.retry_after)
    IN  IF retry_after.raised
        THEN Raise(call, Uncaught("ValueError"))
        ELSE IF ~IsLastAttempt(call)
        THEN SleepThenRetry(call, retry_after.value * (2 ^ call.attempt))
        ELSE Raise(call, RateLimitError(retry_after.value))

(* if response.status_code == 429 *)
OnRateLimit(call, o) ==
    LET retry_after == RetryAfter(o.retry_after)
    IN  IF retry_after.raised
        THEN Raise(call, Uncaught("ValueError"))
        ELSE IF ~IsLastAttempt(call)
        THEN SleepThenRetry(call, retry_after.value)
        ELSE Raise(call, RateLimitError(retry_after.value))

(* if 500 <= response.status_code < 600 *)
OnServerError(call, o) ==
    IF ~IsLastAttempt(call)
    THEN SleepThenRetry(call, Backoff(call.attempt))
    ELSE OnHTTPStatusError(call, o.status)

OnTimeout_NoRetry(call) == Raise(call, TimeoutError)

(* except httpx.TimeoutException *)
OnTimeout(call) ==
    IF ~IsLastAttempt(call)
    THEN SleepThenRetry(call, Backoff(call.attempt))
    ELSE Raise(call, TimeoutError)

RaiseForStatus_ServerErrorsOnly(call, o) ==
    IF o.status < 500
    THEN [call EXCEPT !.pc = "done", !.result = Returned(o.status)]
    ELSE OnHTTPStatusError(call, o.status)

(* response.raise_for_status(); return response *)
RaiseForStatus(call, o) ==
    IF IsSuccess(o.status)
    THEN [call EXCEPT !.pc = "done", !.result = Returned(o.status)]
    ELSE OnHTTPStatusError(call, o.status)

(* the loop body after the await of self._client.request; an exception that
   is neither a timeout nor an HTTPStatusError leaves the wrapper uncaught *)
HandleOutcome(call, o) ==
    IF o.kind = "timeout" THEN OnTimeout(call)
    ELSE IF o.kind = "transport" THEN Raise(call, Uncaught("TransportError"))
    ELSE IF o.status = 429 THEN OnRateLimit(call, o)
    ELSE IF 500 <= o.status /\ o.status < 600 THEN OnServerError(call, o)
    ELSE RaiseForStatus(call, o)

OAuthFailed_Retried(call, r) ==
    [call EXCEPT !.oauth = r, !.pc = "oauth", !.exchanges = @ + 1]

(* the except clauses of _get_access_token: every failure of the exchange
   leaves as GigaChatAuthError *)
OAuthFailed(call, r) == Raise([call EXCEPT !.oauth = r], AuthError)

---------------------------------------------------------------------------
(* AnalyzerService: the steps of analyze() *)

svars == <<chunking, extraction, merging, classifying, validating, run, analysis_repo,
          daemon, task_queue>>

(* a step that has not run *)
NotRun == [done |-> FALSE]

(* no analyze() call *)
NoRun ==
    /\ run = NotRun
    /\ analysis_repo = Absent
    /\ daemon = NotRun
    /\ task_queue = NotRun

ServiceIdle ==
    /\ chunking = NotRun
    /\ extraction = NotRun
    /\ merging = NotRun
    /\ classifying = NotRun
    /\ validating = NotRun
    /\ NoRun

(* a client that is constructed and not used *)
ClientUnused ==
    /\ now = 0
    /\ client = FALSE
    /\ max_retries = DefaultMaxRetries
    /\ retry_delay = DefaultRetryDelay
    /\ access_token = None
    /\ token_expires_at = Absent
    /\ calls = [c \in Callers |-> IdleCall]

Min(a, b) == IF a < b THEN a ELSE b

(* range(start, stop, step) *)
RECURSIVE Range(_, _, _)
Range(start, stop, step) ==
    IF (step > 0 /\ start < stop) \/ (step < 0 /\ start > stop)
    THEN <<start>> \o Range(start + step, stop, step)
    ELSE <<>>

(* seq[lo:hi] for 0 <= lo and 0 <= hi *)
Slice(seq, lo, hi) == SubSeq(seq, lo + 1, Min(hi, Len(seq)))

Chunks_WholeWindow(msgs, batch_size) == IF msgs = <<>> THEN <<>> ELSE <<msgs>>

Chunks_ShortSlice(msgs, batch_size) ==
    LET starts == Range(0, Len(msgs), batch_size)
    IN  [k \in 1..Len(starts) |-> Slice(msgs, starts[k], starts[k] + batch_size - 1)]

(* [msgs[i : i + batch_size] for i in range(0, len(msgs), batch_size)] *)
Chunks(msgs, batch_size) ==
    LET starts == Range(0, Len(msgs), batch_size)
    IN  [k \in 1..Len(starts) |-> Slice(msgs, starts[k], starts[k] + batch_size)]

(* transcripts: n messages with distinct ids *)
Transcripts == {[i \in 1..n |-> n + 1 - i] : n \in 0..MaxMessages}

(* a truthy batch_size; `if batch_size:` sends 0 and None to the legacy path *)
BatchSizes == {-1} \cup (1..MaxBatchSize)

ChunkInit ==
    /\ ClientUnused
    /\ NoRun
    /\ chunking \in [done : {FALSE}, msgs : Transcripts, batch_size : BatchSizes]
    /\ extraction = NotRun
    /\ merging = NotRun
    /\ classifying = NotRun
    /\ validating = NotRun

(* analyze(): the chunking of the loaded messages *)
ChunkMessages ==
    /\ ~chunking.done
    /\ chunking' = [done |-> TRUE, msgs |-> chunking.msgs,
                    batch_size |-> chunking.batch_size,
                    chunks |-> Chunks(chunking.msgs, chunking.batch_size)]
    /\ UNCHANGED <<vars, daemon, task_queue, extraction, merging, classifying, validating, run, analysis_repo>>

ChunkNext == ChunkMessages

ChunkSpec == ChunkInit /\ [][ChunkNext]_svars

---------------------------------------------------------------------------
(* AnalyzerService: the JSON of a reply *)

(* A reply is a sequence of pieces, each standing for its characters: the
   fence of three backticks (FENCE), the word json, the text of a JSON object,
   a character of prose and a whitespace character. *)
Fence == "FENCE"
JsonObject == "{}"
Space == " "
Pieces == {Fence, "json", JsonObject, "x", Space}
JsonFence == <<Fence, "json">>

ReplyTexts == UNION {[1..n -> Pieces] : n \in 0..MaxReplyLen}

(* str.find(sub, start): the lowest offset at or after start, or -1 *)
RECURSIVE Find(_, _, _)
Find(text, sub, start) ==
    IF start + Len(sub) > Len(text) THEN -1
    ELSE IF SubSeq(text, start + 1, start + Len(sub)) = sub THEN start
    ELSE Find(text, sub, start + 1)

(* sub in text *)
Contains(text, sub) == Find(text, sub, 0) # -1

(* text without its last character: a piece of several characters is left
   cut short, a piece of one character is gone *)
CutShort(piece) ==
    IF piece = Fence THEN <<"FENC">>
    ELSE IF piece = "json" THEN <<"jso">>
    ELSE IF piece = JsonObject THEN <<"{">>
    ELSE <<>>

DropLastChar(text) ==
    IF text = <<>> THEN <<>>
    ELSE SubSeq(text, 1, Len(text) - 1) \o CutShort(text[Len(text)])

(* text[lo:hi] where hi is what find returned: -1 counts from the end *)
SliceTo(text, lo, hi) ==
    IF hi >= 0 THEN Slice(text, lo, hi)
    ELSE DropLastChar(Slice(text, lo, Len(text)))

RECURSIVE LStrip(_)
LStrip(text) ==
    IF text # <<>> /\ Head(text) = Space THEN LStrip(Tail(text)) ELSE text

RECURSIVE RStrip(_)
RStrip(text) ==
    IF text # <<>> /\ text[Len(text)] = Space
    THEN RStrip(SubSeq(text, 1, Len(text) - 1))
    ELSE text

(* str.strip() *)
Strip(text) == LStrip(RStrip(text))

(* response_text[json_start:json_end].strip() after the first such fence *)
AfterFence(text, fence) ==
    LET json_start == Find(text, fence, 0) + Len(fence)
        json_end == Find(text, <<Fence>>, json_start)
    IN  Strip(SliceTo(text, json_start, json_end))

(* the text handed to json.loads *)
ExtractJson(text) ==
    IF Contains(text, JsonFence) THEN AfterFence(text, JsonFence)
    ELSE IF Contains(text, <<Fence>>) THEN AfterFence(text, <<Fence>>)
    ELSE text

(* json.loads accepts one JSON value with whitespace around it *)
JsonLoads(text) ==
    IF Strip(text) = <<JsonObject>>
    THEN [raised |-> FALSE]
    ELSE [raised |-> TRUE]

(* the batch loop logs a parse failure and goes on without the
   discussions of the batch; the single-window path lets json.loads raise *)
ParseOutcome(mode, text) ==
    IF ~JsonLoads(text).raised THEN [kind |-> "parsed"]
    ELSE IF mode = "batch" THEN [kind |-> "batch_skipped"]
    ELSE [kind |-> "raised", exc |-> Uncaught("JSONDecodeError")]

Modes == {"batch", "legacy"}

ExtractInit ==
    /\ ClientUnused
    /\ NoRun
    /\ chunking = NotRun
    /\ extraction \in [done : {FALSE}, mode : Modes, response_text : ReplyTexts]
    /\ merging = NotRun
    /\ classifying = NotRun
    /\ validating = NotRun

(* analyze(): from the reply's content to the parsed analysis *)
ParseReply ==
    /\ ~extraction.done
    /\ extraction' =
           LET json_text == ExtractJson(extraction.response_text)
           IN  [done |-> TRUE, mode |-> extraction.mode,
                response_text |-> extraction.response_text,
                json_text |-> json_text,
                outcome |-> ParseOutcome(extraction.mode, json_text)]
    /\ UNCHANGED <<vars, daemon, task_queue, chunking, merging, classifying, validating, run, analysis_repo>>

ExtractNext == ParseReply

ExtractSpec == ExtractInit /\ [][ExtractNext]_svars

---------------------------------------------------------------------------
(* AnalyzerService._merge_discussions *)

(* A record is a dict: a function from the keys it carries.  A topic is a
   sequence of characters. *)
Get(d, key, default) == IF key \in DOMAIN d THEN d[key] ELSE default

EmptyDict == "{}"

LowerChar(c) == IF c = "A" THEN "a" ELSE IF c = "B" THEN "b" ELSE c

(* str.lower() *)
Lower(text) == [i \in 1..Len(text) |-> LowerChar(text[i])]

NormTopic_CaseSensitive(s) == Strip(s)

(* norm_topic: (s or "").strip().lower() *)
NormTopic(s) == Lower(Strip(s))

(* list(dict.fromkeys(xs)): the first occurrence of each element, in order *)
RECURSIVE Dedupe(_)
Dedupe(xs) ==
    IF xs = <<>> THEN <<>>
    ELSE LET front == Dedupe(SubSeq(xs, 1, Len(xs) - 1))
             last == xs[Len(xs)]
         IN  IF \E i \in 1..Len(front) : front[i] = last
             THEN front
             ELSE Append(front, last)

UnionUnique_KeepExisting(existing, incoming) == Dedupe(existing)

(* list(dict.fromkeys((dst or []) + (src or []))) *)
UnionUnique(existing, incoming) == Dedupe(existing \o incoming)

(* xs[:n] *)
Take(xs, n) == Slice(xs, 0, n)

Max(a, b) == IF a > b THEN a ELSE b

(* the first record of a key *)
SeedEntry(disc) ==
    [topic |-> disc.topic,
     keywords |-> Take(Dedupe(Get(disc, "keywords", <<>>)), KeywordCap),
     participants |-> Dedupe(Get(disc, "participants", <<>>)),
     summary |-> Get(disc, "summary", ""),
     expert_comment |-> Get(disc, "expert_comment", EmptyDict),
     message_links |-> Dedupe(Get(disc, "message_links", <<>>)),
     complexity |-> Get(disc, "complexity", DefaultComplexity),
     sentiment |-> Get(disc, "sentiment", "neutral"),
     practical_value |-> Get(disc, "practical_value", DefaultPracticalValue)]

Replaces_OnTie(pv_src, pv_dst) == pv_src >= pv_dst

(* if pv_src > pv_dst *)
Replaces(pv_src, pv_dst) == pv_src > pv_dst

MergeInto_SentimentFollowsValue(dst, disc) ==
    LET pv_dst == Get(dst, "practical_value", 0)
        pv_src == Get(disc, "practical_value", 0)
        higher == Replaces(pv_src, pv_dst)
    IN  [dst EXCEPT
            !.keywords = Take(UnionUnique(@, Get(disc, "keywords", <<>>)), KeywordCap),
            !.participants = UnionUnique(@, Get(disc, "participants", <<>>)),
            !.message_links = UnionUnique(@, Get(disc, "message_links", <<>>)),
            !.summary = IF higher THEN Get(disc, "summary", @) ELSE @,
            !.expert_comment = IF higher THEN Get(disc, "expert_comment", @) ELSE @,
            !.sentiment = IF higher THEN Get(disc, "sentiment", @) ELSE @,
            !.practical_value = IF higher THEN pv_src ELSE @,
            !.complexity = Max(@, Get(disc, "complexity", 0))]

MergeInto_UncappedKeywords(dst, disc) ==
    LET pv_dst == Get(dst, "practical_value", 0)
        pv_src == Get(disc, "practical_value", 0)
        higher == Replaces(pv_src, pv_dst)
    IN  [dst EXCEPT
            !.keywords = UnionUnique(@, Get(disc, "keywords", <<>>)),
            !.participants = UnionUnique(@, Get(disc, "participants", <<>>)),
            !.message_links = UnionUnique(@, Get(disc, "message_links", <<>>)),
            !.summary = IF higher THEN Get(disc, "summary", @) ELSE @,
            !.expert_comment = IF higher THEN Get(disc, "expert_comment", @) ELSE @,
            !.practical_value = IF higher THEN pv_src ELSE @,
            !.complexity = Max(@, Get(disc, "complexity", 0))]

(* a later record of a key: the unions, the higher practical_value with its
   summary and expert_comment, the larger complexity; the values are
   integers, which int() leaves as they are *)
MergeInto(dst, disc) ==
    LET pv_dst == Get(dst, "practical_value", 0)
        pv_src == Get(disc, "practical_value", 0)
        higher == Replaces(pv_src, pv_dst)
    IN  [dst EXCEPT
            !.keywords = Take(UnionUnique(@, Get(disc, "keywords", <<>>)), KeywordCap),
            !.participants = UnionUnique(@, Get(disc, "participants", <<>>)),
            !.message_links = UnionUnique(@, Get(disc, "message_links", <<>>)),
            !.summary = IF higher THEN Get(disc, "summary", @) ELSE @,
            !.expert_comment = IF higher THEN Get(disc, "expert_comment", @) ELSE @,
            !.practical_value = IF higher THEN pv_src ELSE @,
            !.complexity = Max(@, Get(disc, "complexity", 0))]

(* one turn of the loop; merged holds the values of the dict in the order
   their keys were inserted *)
MergeStep(merged, disc) ==
    LET t == NormTopic(Get(disc, "topic", <<>>))
        at == {i \in 1..Len(merged) : NormTopic(merged[i].topic) = t}
    IN  IF t = <<>> THEN merged
        ELSE IF at = {} THEN Append(merged, SeedEntry(disc))
        ELSE LET i == CHOOSE i \in at : TRUE
             IN  [merged EXCEPT ![i] = MergeInto(@, disc)]

RECURSIVE MergeFrom(_, _)
MergeFrom(merged, discussions) ==
    IF discussions = <<>> THEN merged
    ELSE MergeFrom(MergeStep(merged, Head(discussions)), Tail(discussions))

(* _merge_discussions(discussions) *)
MergeDiscussions(discussions) == MergeFrom(<<>>, discussions)

(* what a reply may say about a discussion besides its topic *)
Payloads ==
    {[keywords |-> <<"k1", "k2", "k3">>, participants |-> <<"p1", "p2">>,
      message_links |-> <<"l1", "l2">>, complexity |-> 2,
      sentiment |-> "positive", practical_value |-> 5],
     [keywords |-> <<"k3", "k4", "k5", "k6">>, participants |-> <<"p2", "p3">>,
      message_links |-> <<"l2", "l3">>, complexity |-> 4,
      sentiment |-> "negative", practical_value |-> 8],
     [keywords |-> <<"k1", "k1">>, participants |-> <<"p1", "p1">>,
      message_links |-> <<"l4", "l4">>, complexity |-> 1,
      practical_value |-> 8]}

(* the i-th record of the batches: a full record with its own summary and
   expert_comment, or a record of a topic alone *)
RecordAt(i, topic, payload) ==
    [topic |-> topic, summary |-> ToString(i), expert_comment |-> ToString(i)]
        @@ payload
BareRecord(topic) == [topic |-> topic]

Topics == {<<"a">>, <<Space, "A">>, <<"b">>}
BareTopics == {<<Space>>, <<"a">>}

RecordsAt(i) ==
    {RecordAt(i, t, p) : t \in Topics, p \in Payloads}
        \cup {BareRecord(t) : t \in BareTopics}

MergeInit ==
    /\ ClientUnused
    /\ NoRun
    /\ chunking = NotRun
    /\ extraction = NotRun
    /\ classifying = NotRun
    /\ validating = NotRun
    /\ \E n \in 0..MaxRecords :
           \E choice \in [1..n -> RecordsAt(0)] :
               merging = [done |-> FALSE,
                          discussions |-> [i \in 1..n |->
                              IF "summary" \in DOMAIN choice[i]
                              THEN [choice[i] EXCEPT !.summary = ToString(i),
                                                     !.expert_comment = ToString(i)]
                              ELSE choice[i]]]

(* analyze(): merged_discussions = self._merge_discussions(all_discussions) *)
Merge ==
    /\ ~merging.done
    /\ merging' = [done |-> TRUE, discussions |-> merging.discussions,
                   merged |-> MergeDiscussions(merging.discussions)]
    /\ UNCHANGED <<vars, daemon, task_queue, chunking, extraction, classifying, validating, run, analysis_repo>>

MergeNext == Merge

MergeSpec == MergeInit /\ [][MergeNext]_svars

---------------------------------------------------------------------------
(* AnalyzerService._calculate_priority *)

CalculatePriority_Above(participant_count, message_count, practical_value) ==
    IF participant_count > 5 \/ message_count > 10 \/ practical_value > 8
    THEN "high"
    ELSE IF participant_count > 3 \/ message_count > 5 \/ practical_value > 5
    THEN "medium"
    ELSE "low"

CalculatePriority(participant_count, message_count, practical_value) ==
    IF participant_count >= 5 \/ message_count >= 10 \/ practical_value >= 8
    THEN "high"
    ELSE IF participant_count >= 3 \/ message_count >= 5 \/ practical_value >= 5
    THEN "medium"
    ELSE "low"

ClassifyInit ==
    /\ ClientUnused
    /\ NoRun
    /\ chunking = NotRun
    /\ extraction = NotRun
    /\ merging = NotRun
    /\ validating = NotRun
    /\ classifying \in [done : {FALSE},
                        participant_count : 0..MaxParticipantCount,
                        message_count : 0..MaxMessageCount,
                        practical_value : 0..MaxPracticalValue]

(* self._calculate_priority(participant_count, message_count, practical_value) *)
Classify ==
    /\ ~classifying.done
    /\ classifying' = [done |-> TRUE,
                       participant_count |-> classifying.participant_count,
                       message_count |-> classifying.message_count,
                       practical_value |-> classifying.practical_value,
                       priority |-> CalculatePriority(classifying.participant_count,
                                                      classifying.message_count,
                                                      classifying.practical_value)]
    /\ UNCHANGED <<vars, daemon, task_queue, chunking, extraction, merging, validating, run, analysis_repo>>

ClassifyNext == Classify

ClassifySpec == ClassifyInit /\ [][ClassifyNext]_svars

---------------------------------------------------------------------------
(* AnalyzerService._validate_links *)

(* A link is the sequence of the parts that "/" separates in it, the scheme
   and host counted as one part: https://t.me/ru_python/111 is
   <<"https://t.me", "ru_python", <<"1", "1", "1">>>>.  The parts after the
   username are sequences of characters. *)
Origin == "https://t.me"

(* f"https://t.me/{chat_username}/" without its closing "/" *)
ExpectedPrefix(chat_username) == <<Origin, chat_username>>

(* link.startswith(expected_prefix): the prefix ends with "/", so its parts
   are the first parts of the link and one more part follows *)
StartsWith(link, prefix) ==
    /\ Len(link) > Len(prefix)
    /\ SubSeq(link, 1, Len(prefix)) = prefix

(* link.split("/")[-1] *)
LastPart(link) == link[Len(link)]

WrongUsername(topic, link) == [kind |-> "Wrong username in link", topic |-> topic, link |-> link]
InvalidFormat(topic, link) == [kind |-> "Invalid link format", topic |-> topic, link |-> link]
NotAnalyzed(topic, link) == [kind |-> "not in analyzed messages", topic |-> topic, link |-> link]

ValidateLink_AnyId(topic, link, chat_username, message_ids) ==
    IF ~StartsWith(link, ExpectedPrefix(chat_username))
    THEN <<WrongUsername(topic, link)>>
    ELSE IF ParseInt(LastPart(link)).raised THEN <<InvalidFormat(topic, link)>>
    ELSE <<>>

(* the body of the loop over a discussion's links: the errors one link adds *)
ValidateLink(topic, link, chat_username, message_ids) ==
    IF ~StartsWith(link, ExpectedPrefix(chat_username))
    THEN <<WrongUsername(topic, link)>>
    ELSE LET msg_id == ParseInt(LastPart(link))
         IN  IF msg_id.raised THEN <<InvalidFormat(topic, link)>>
             ELSE IF msg_id.value \notin message_ids THEN <<NotAnalyzed(topic, link)>>
             ELSE <<>>

RECURSIVE ValidateEach(_, _, _, _)
ValidateEach(topic, links, chat_username, message_ids) ==
    IF links = <<>> THEN <<>>
    ELSE ValidateLink(topic, Head(links), chat_username, message_ids)
             \o ValidateEach(topic, Tail(links), chat_username, message_ids)

(* _validate_links(discussions, chat_username, message_ids) *)
RECURSIVE ValidateLinks(_, _, _)
ValidateLinks(discussions, chat_username, message_ids) ==
    IF discussions = <<>> THEN <<>>
    ELSE ValidateEach(Head(discussions).topic, Head(discussions).message_links,
                      chat_username, message_ids)
             \o ValidateLinks(Tail(discussions), chat_username, message_ids)

Id2641549 == <<"2", "6", "4", "1", "5", "4", "9">>
Id111 == <<"1", "1", "1">>
Letters == <<"a", "b", "c">>

Links ==
    {<<Origin, "ru_python", Id2641549>>,
     <<Origin, "ru_python", Id111>>,
     <<Origin, "other", Id2641549>>,
     <<Origin, "ru_python", Letters>>,
     <<Origin, "ru_python", <<>>>>,
     <<Origin, "ru_python">>,
     <<Origin, "ru_python", Letters, Id2641549>>}

LinkLists == UNION {[1..n -> Links] : n \in 0..MaxLinkCount}

MessageIdSets == {{2641549}, {111}}

ValidateInit ==
    /\ ClientUnused
    /\ NoRun
    /\ chunking = NotRun
    /\ extraction = NotRun
    /\ merging = NotRun
    /\ classifying = NotRun
    /\ \E n \in 0..2 : \E links \in [1..n -> LinkLists] : \E ids \in MessageIdSets :
           validating = [done |-> FALSE, chat_username |-> "ru_python",
                         message_ids |-> ids,
                         discussions |-> [i \in 1..n |->
                             [topic |-> ToString(i), message_links |-> links[i]]]]

(* analyze(): errors = self._validate_links(result.discussions, chat_username,
   message_ids) *)
Validate ==
    /\ ~validating.done
    /\ validating' = [done |-> TRUE, chat_username |-> validating.chat_username,
                      message_ids |-> validating.message_ids,
                      discussions |-> validating.discussions,
                      errors |-> ValidateLinks(validating.discussions,
                                               validating.chat_username,
                                               validating.message_ids)]
    /\ UNCHANGED <<vars, daemon, task_queue, chunking, extraction, merging, classifying, run, analysis_repo>>

ValidateNext == Validate

ValidateSpec == ValidateInit /\ [][ValidateNext]_svars

---------------------------------------------------------------------------
(* AnalyzerService.analyze *)

(* The Discussion built from a dict d: the fields with their defaults; participants given as
   one comma-joined string are split.  A participant is the sequence of the
   names that commas separate in it. *)
ValidateParticipants(v) ==
    IF Len(v) = 1 /\ Len(v[1]) > 1
    THEN [i \in 1..Len(v[1]) |-> <<v[1][i]>>]
    ELSE v

Sentiments == {"positive", "negative", "neutral", "mixed"}

(* what pydantic accepts as a Discussion *)
ValidDiscussion(d) ==
    /\ {"topic", "summary", "expert_comment"} \subseteq DOMAIN d
    /\ d.expert_comment # EmptyDict
    /\ Get(d, "complexity", 3) \in 1..5
    /\ Get(d, "practical_value", 5) \in 1..10
    /\ Get(d, "sentiment", "neutral") \in Sentiments

ToDiscussion(d) ==
    [topic |-> d.topic,
     keywords |-> Get(d, "keywords", <<>>),
     participants |-> ValidateParticipants(Get(d, "participants", <<>>)),
     summary |-> d.summary,
     expert_comment |-> d.expert_comment,
     message_links |-> Get(d, "message_links", <<>>),
     priority |-> Get(d, "priority", "medium"),
     participant_count |-> Get(d, "participant_count", 0),
     message_count |-> Get(d, "message_count", 0),
     complexity |-> Get(d, "complexity", 3),
     sentiment |-> Get(d, "sentiment", "neutral"),
     practical_value |-> Get(d, "practical_value", 5)]

EnrichDiscussion_CountsOnly(disc) ==
    [disc EXCEPT !.participant_count = Len(disc.participants),
                 !.message_count = Len(disc.message_links)]

(* the body of the loop of _enrich_discussions *)
EnrichDiscussion(disc) ==
    [disc EXCEPT !.participant_count = Len(disc.participants),
                 !.message_count = Len(disc.message_links),
                 !.priority = CalculatePriority(Len(disc.participants),
                                                Len(disc.message_links),
                                                disc.practical_value)]

(* _enrich_discussions(result.discussions) *)
EnrichDiscussions(discussions) ==
    [i \in 1..Len(discussions) |-> EnrichDiscussion(discussions[i])]

(* the records a reply may carry *)
GoodLink == <<Origin, "ru_python", Id2641549>>
RecordA ==
    [topic |-> <<"a">>, keywords |-> <<"k1">>,
     participants |-> <<(<<"p1", "p2", "p3">>)>>,
     summary |-> "sA", expert_comment |-> "cA",
     message_links |-> <<GoodLink>>,
     complexity |-> 2, sentiment |-> "positive", practical_value |-> 4]
RecordA2 ==
    [topic |-> <<Space, "A">>, keywords |-> <<"k2">>,
     participants |-> <<(<<"p4">>), (<<"p5">>)>>,
     summary |-> "sA2", expert_comment |-> "cA2",
     message_links |-> <<(<<Origin, "ru_python", Id111>>)>>,
     complexity |-> 3, sentiment |-> "mixed", practical_value |-> 6]
RecordB ==
    [topic |-> <<"b">>, keywords |-> <<"k3">>,
     participants |-> <<(<<"p1">>)>>,
     summary |-> "sB", expert_comment |-> "cB",
     message_links |-> <<(<<Origin, "other", Id2641549>>), (<<Origin, "ru_python", Letters>>)>>,
     complexity |-> 4, sentiment |-> "negative", practical_value |-> 8,
     priority |-> "low", participant_count |-> 9, message_count |-> 9]
RecordOutOfRange ==
    [topic |-> <<"c">>, summary |-> "sC", expert_comment |-> "cC", complexity |-> 7]

(* a reply of the model: its text, and the object its JSON stands for *)
RunReplies ==
    {[text |-> <<Fence, "json", JsonObject, Fence>>, data |-> [discussions |-> <<RecordA, RecordB>>]],
     [text |-> <<JsonObject>>, data |-> [discussions |-> <<RecordA2>>]],
     [text |-> <<"x">>, data |-> [note |-> "no JSON"]],
     [text |-> <<Fence, "json", JsonObject>>, data |-> [discussions |-> <<RecordA>>]],
     [text |-> <<JsonObject>>, data |-> [note |-> "no discussions"]],
     [text |-> <<JsonObject>>, data |-> [discussions |-> <<RecordOutOfRange>>]]}

(* response.model and response.usage.total_tokens of every reply *)
ReplyModel == "GigaChat"
ReplyTokens == 1

(* complete() returns a reply or raises one of the client's errors *)
CompleteOutcomes ==
    {[kind |-> "reply", reply |-> r] : r \in RunReplies}
        \cup {[kind |-> "raised", exc |-> e] : e \in {AuthError, TimeoutError}}

MessageId(i) == IF i = 1 THEN 2641549 ELSE IF i = 2 THEN 111 ELSE i

(* the transcript file of the chat and date: absent, or n messages *)
TranscriptFiles == {Absent} \cup {Some([i \in 1..n |-> MessageId(i)]) : n \in 0..MaxRunMessages}

RunBatchSizes == {0, 2}

SaveAnalysis_NoDiscussions(result, metadata) == [metadata |-> metadata, discussions |-> <<>>]

(* analysis_repo.save: the file holds metadata.model_dump() and the
   model_dump() of every discussion *)
SaveAnalysis(result, metadata) == [metadata |-> metadata, discussions |-> result]

(* the file of an analysis saved by an earlier run *)
StoredAnalysis ==
    SaveAnalysis(<<EnrichDiscussion(ToDiscussion(RecordA))>>,
                 [total_messages |-> 1, analyzed_messages |-> 1, tokens_used |-> ReplyTokens,
                  model |-> ReplyModel, latency_seconds |-> 0, analyzed_at |-> 0])

(* analysis_repo.load: AnalysisMetadata built from data["metadata"] and
   AnalysisResult(discussions=data["discussions"]), which builds every
   Discussion anew from its stored fields *)
LoadAnalysis(file) ==
    IF \A i \in 1..Len(file.discussions) : ValidDiscussion(file.discussions[i])
    THEN [kind |-> "loaded",
          value |-> [discussions |-> [i \in 1..Len(file.discussions) |->
                                          ToDiscussion(file.discussions[i])],
                     metadata |-> file.metadata]]
    ELSE [kind |-> "raised", exc |-> Uncaught("ValidationError")]

(* message_repo.load_messages: the dump of the file, DataNotFoundError when
   there is no file *)
LoadMessages_EmptyWhenMissing(file) ==
    [kind |-> "dump", messages |-> IF file = Absent THEN <<>> ELSE file[1]]

LoadMessagesFrom(file) ==
    IF file = Absent THEN [kind |-> "raised", exc |-> Uncaught("DataNotFoundError")]
    ELSE [kind |-> "dump", messages |-> file[1]]

NoOutcome == [kind |-> "none"]

(* the locals of analyze() at its entry; call counts the calls made for the
   chat and date, first is the outcome of the first of them *)
StartRun(force, validate_links, batch_size, file, call, first) ==
    [pc |-> "start", force |-> force, validate_links |-> validate_links,
     batch_size |-> batch_size, file |-> file,
     chat_username |-> "ru_python",
     found |-> Absent, loaded |-> FALSE,
     messages |-> <<>>, chunks |-> <<>>, idx |-> 0,
     completions |-> 0, start_time |-> 0, total_latency |-> 0,
     total_tokens_used |-> 0, log |-> <<>>,
     all_discussions |-> <<>>,
     result |-> <<>>, errors |-> <<>>, validated |-> FALSE,
     saved |-> Absent, outcome |-> NoOutcome,
     call |-> call, first |-> first, stages |-> <<>>]

RunInit ==
    /\ ClientUnused
    /\ daemon = NotRun
    /\ task_queue = NotRun
    /\ chunking = NotRun
    /\ extraction = NotRun
    /\ merging = NotRun
    /\ classifying = NotRun
    /\ validating = NotRun
    /\ analysis_repo \in {Absent, Some(StoredAnalysis)}
    /\ \E force \in BOOLEAN, validate_links \in BOOLEAN,
          batch_size \in RunBatchSizes, file \in TranscriptFiles :
           run = StartRun(force, validate_links, batch_size, file, 1, NoOutcome)

(* the steps of analyze() the run has gone through, in their order *)
Staged(r, stage) == [r EXCEPT !.stages = Append(@, stage)]

RunRaise(r, exc) == [r EXCEPT !.pc = "done", !.outcome = [kind |-> "raised", exc |-> exc]]

SkipsAnalysis_Never(exists, force) == FALSE

(* if self.analysis_repo.exists(chat, date) and not force *)
SkipsAnalysis(exists, force) == exists /\ ~force

(* the check for an existing analysis: return self.analysis_repo.load(...) *)
CheckExisting ==
    /\ run.pc = "start"
    /\ run' = IF SkipsAnalysis(analysis_repo # Absent, run.force)
              THEN [Staged(run, "check") EXCEPT
                       !.pc = "done", !.found = analysis_repo,
                       !.outcome = LoadAnalysis(analysis_repo[1])]
              ELSE [Staged(run, "check") EXCEPT !.pc = "load", !.found = analysis_repo]
    /\ UNCHANGED <<vars, daemon, task_queue, chunking, extraction, merging, classifying, validating, analysis_repo>>

(* Step 1: load_messages, then the chunking or the single window *)
LoadMessages ==
    /\ run.pc = "load"
    /\ run' = LET dump == LoadMessagesFrom(run.file)
                  r == Staged(run, "load")
              IN  IF dump.kind = "raised"
                  THEN RunRaise(r, dump.exc)
                  ELSE LET messages == dump.messages
                       IN  IF run.batch_size # 0
                           THEN LET chunks == Chunks(messages, run.batch_size)
                                IN  [r EXCEPT !.messages = messages, !.chunks = chunks,
                                              !.loaded = TRUE, !.idx = 1,
                                              !.pc = IF chunks = <<>> THEN "merge" ELSE "complete"]
                           ELSE [r EXCEPT !.messages = messages, !.loaded = TRUE,
                                          !.pc = "complete"]
    /\ UNCHANGED <<vars, daemon, task_queue, chunking, extraction, merging, classifying, validating, analysis_repo>>

(* Step 3: start_time = time.time() and await
   self.gigachat_client.complete(...) is entered *)
SendCompletion ==
    /\ run.pc = "complete"
    /\ run' = [Staged(run, "complete") EXCEPT
                  !.pc = "awaiting", !.completions = @ + 1, !.start_time = now]
    /\ UNCHANGED <<vars, daemon, task_queue, chunking, extraction, merging, classifying, validating, analysis_repo>>

(* time passing while the run awaits the completion *)
Elapse ==
    /\ run.pc = "awaiting"
    /\ now < MaxRunClock
    /\ now' = now + 1
    /\ UNCHANGED <<client, max_retries, retry_delay, access_token, token_expires_at, calls>>
    /\ UNCHANGED svars

(* the call of run.completions as the run saw it: when it was entered, when
   it ended and how *)
Logged(r, o) ==
    [r EXCEPT !.log = Append(@, [index |-> r.completions, sent_at |-> r.start_time,
                                 ended_at |-> now, outcome |-> o])]

(* latency, total_latency and total_tokens_used after a reply *)
Accounted(r) ==
    [r EXCEPT !.total_latency = @ + (now - r.start_time),
              !.total_tokens_used = @ + ReplyTokens]

BatchDiscussions_KeepsUnparsed(reply) == Get(reply.data, "discussions", <<>>)

(* batch_discussions of a reply in the batch loop: a reply that does not
   parse gives none *)
BatchDiscussions(reply) ==
    IF JsonLoads(ExtractJson(reply.text)).raised THEN <<>>
    ELSE Get(reply.data, "discussions", <<>>)

(* AnalysisResult(discussions=records) *)
BuildResult(r, records) ==
    IF \A i \in 1..Len(records) : ValidDiscussion(records[i])
    THEN [r EXCEPT !.pc = "enrich",
                   !.result = [i \in 1..Len(records) |-> ToDiscussion(records[i])]]
    ELSE RunRaise(r, Uncaught("ValidationError"))

(* Step 4 of the batch loop, after complete() has returned or raised; the
   call is not inside a try, and the next batch follows without a pause *)
ReceiveBatch(o) ==
    /\ run.pc = "awaiting"
    /\ run.batch_size # 0
    /\ run' = IF o.kind = "raised" THEN RunRaise(Logged(run, o), o.exc)
              ELSE [Staged(Accounted(Logged(run, o)), "parse") EXCEPT
                       !.all_discussions = @ \o BatchDiscussions(o.reply),
                       !.idx = @ + 1,
                       !.pc = IF run.idx = Len(run.chunks) THEN "merge" ELSE "complete"]
    /\ UNCHANGED <<vars, daemon, task_queue, chunking, extraction, merging, classifying, validating, analysis_repo>>

(* merged_discussions = self._merge_discussions(all_discussions) and the
   AnalysisResult built from it *)
MergeBatches ==
    /\ run.pc = "merge"
    /\ run' = BuildResult(Staged(run, "merge"), MergeDiscussions(run.all_discussions))
    /\ UNCHANGED <<vars, daemon, task_queue, chunking, extraction, merging, classifying, validating, analysis_repo>>

(* the single window: json.loads and analysis_data["discussions"] raise *)
ReceiveSingle(o) ==
    /\ run.pc = "awaiting"
    /\ run.batch_size = 0
    /\ run' = IF o.kind = "raised" THEN RunRaise(Logged(run, o), o.exc)
              ELSE LET r == Staged(Accounted(Logged(run, o)), "parse")
                   IN  IF JsonLoads(ExtractJson(o.reply.text)).raised
                       THEN RunRaise(r, Uncaught("JSONDecodeError"))
                       ELSE IF "discussions" \notin DOMAIN o.reply.data
                       THEN RunRaise(r, Uncaught("KeyError"))
                       ELSE BuildResult(r, o.reply.data.discussions)
    /\ UNCHANGED <<vars, daemon, task_queue, chunking, extraction, merging, classifying, validating, analysis_repo>>

(* Step 4.5 *)
Enrich ==
    /\ run.pc = "enrich"
    /\ run' = [Staged(run, "enrich") EXCEPT !.pc = "validate", !.result = EnrichDiscussions(@)]
    /\ UNCHANGED <<vars, daemon, task_queue, chunking, extraction, merging, classifying, validating, analysis_repo>>

AfterValidation_Fatal(r, errors) ==
    IF errors # <<>> THEN RunRaise(r, Uncaught("ValidationError"))
    ELSE [r EXCEPT !.pc = "save", !.errors = errors, !.validated = TRUE]

(* the errors are logged as warnings *)
AfterValidation(r, errors) ==
    [r EXCEPT !.pc = "save", !.errors = errors, !.validated = TRUE]

(* Step 5: if self.validate_links *)
ValidateResult ==
    /\ run.pc = "validate"
    /\ run' = IF run.validate_links
              THEN AfterValidation(Staged(run, "validate"),
                                   ValidateLinks(run.result, run.chat_username,
                                                 {run.messages[i] : i \in 1..Len(run.messages)}))
              ELSE [run EXCEPT !.pc = "save"]
    /\ UNCHANGED <<vars, daemon, task_queue, chunking, extraction, merging, classifying, validating, analysis_repo>>

(* AnalysisMetadata(...) of Step 6 *)
Metadata(r) ==
    [total_messages |-> Len(r.messages), analyzed_messages |-> Len(r.messages),
     tokens_used |-> r.total_tokens_used, model |-> ReplyModel,
     latency_seconds |-> r.total_latency, analyzed_at |-> now]

(* Step 6: the metadata and analysis_repo.save; the metadata reads
   response.model, a name that is bound by a completion call *)
Save ==
    /\ run.pc = "save"
    /\ IF run.completions = 0
       THEN /\ run' = RunRaise(run, Uncaught("UnboundLocalError"))
            /\ UNCHANGED analysis_repo
       ELSE LET analysis == [discussions |-> run.result, metadata |-> Metadata(run)]
            IN  /\ analysis_repo' = Some(SaveAnalysis(analysis.discussions, analysis.metadata))
                /\ run' = [Staged(run, "save") EXCEPT !.pc = "return", !.saved = Some(analysis)]
    /\ UNCHANGED <<vars, daemon, task_queue, chunking, extraction, merging, classifying, validating>>

(* return result, metadata *)
Return ==
    /\ run.pc = "return"
    /\ run' = [run EXCEPT !.pc = "done",
                          !.outcome = [kind |-> "returned",
                                       value |-> [discussions |-> run.result,
                                                  metadata |-> run.saved[1].metadata]]]
    /\ UNCHANGED <<vars, daemon, task_queue, chunking, extraction, merging, classifying, validating, analysis_repo>>

(* analyze() is called once more with the same arguments after a call with
   force=False that gave a result *)
AnalyzeAgain ==
    /\ run.pc = "done"
    /\ run.call = 1
    /\ ~run.force
    /\ run.outcome.kind \in {"returned", "loaded"}
    /\ run' = StartRun(run.force, run.validate_links, run.batch_size, run.file,
                       2, run.outcome)
    /\ UNCHANGED <<vars, daemon, task_queue, chunking, extraction, merging, classifying, validating, analysis_repo>>

RunNext ==
    \/ CheckExisting
    \/ LoadMessages
    \/ SendCompletion
    \/ Elapse
    \/ \E o \in CompleteOutcomes : ReceiveBatch(o)
    \/ MergeBatches
    \/ \E o \in CompleteOutcomes : ReceiveSingle(o)
    \/ Enrich
    \/ ValidateResult
    \/ Save
    \/ Return
    \/ AnalyzeAgain

RunSpec == RunInit /\ [][RunNext]_<<vars, svars>>

---------------------------------------------------------------------------
(* AnalyzerDaemon (src/src/cli/daemon.py) and EventSubscriber
   (src/src/services/event_subscriber.py).  The daemon is taken up after
   setup() and at the entry of listen(): the client is open, the subscriber
   is subscribed to tg_events and _running is set.  A coroutine runs
   atomically between two awaits; the listen loop awaits the next message
   and, inside the handler, analyze(); shutdown() awaits the unsubscribe, the
   two closes of the subscriber and the close of the client. *)

(* a payload published on the channel: whether its text is JSON, whether
   the JSON is an object, and the value it stands for *)
Payload(value) == [valid |-> TRUE, dict |-> TRUE, value |-> value]

FetchedEvent ==
    Payload([event |-> "messages_fetched", chat |-> "ru_python", date |-> "2025-11-08",
             message_count |-> 2])
EventPayloads ==
    {FetchedEvent,
     Payload([event |-> "messages_fetched", date |-> "2025-11-08"]),
     Payload([event |-> "messages_fetched", chat |-> "ru_python", date |-> ""]),
     Payload([event |-> "fetch_failed", chat |-> "ru_python", date |-> "2025-11-08",
              error |-> "timeout"]),
     Payload([event |-> "messages_deleted", chat |-> "ru_python", date |-> "2025-11-08"]),
     Payload([chat |-> "ru_python", date |-> "2025-11-08"]),
     [valid |-> TRUE, dict |-> FALSE, value |-> <<>>],
     [valid |-> FALSE, dict |-> FALSE, value |-> <<>>]}

(* what self._pubsub.listen() yields: the confirmation of the subscription
   and the published messages *)
BusMessages ==
    {[type |-> "subscribe", data |-> [valid |-> FALSE, dict |-> FALSE, value |-> <<>>]]}
        \cup {[type |-> "message", data |-> e] : e \in EventPayloads}

(* the coroutines that run shutdown(): the task the signal handler creates
   and the finally of run() *)
ShutdownTasks == {"signal", "finally"}

DaemonInit ==
    /\ now = 0
    /\ client = TRUE
    /\ max_retries = DefaultMaxRetries
    /\ retry_delay = DefaultRetryDelay
    /\ access_token = None
    /\ token_expires_at = Absent
    /\ calls = [c \in Callers |-> IdleCall]
    /\ chunking = NotRun
    /\ extraction = NotRun
    /\ merging = NotRun
    /\ classifying = NotRun
    /\ validating = NotRun
    /\ task_queue = NotRun
    /\ run = NotRun
    /\ analysis_repo \in {Absent, Some(StoredAnalysis)}
    /\ \E n \in 0..MaxEvents : \E events \in [1..n -> BusMessages] :
       \E file \in {Absent, Some(<<MessageId(1), MessageId(2)>>)} :
           daemon = [events |-> events, inbox |-> events,
                     lpc |-> "waiting", running |-> TRUE,
                     subscribed |-> TRUE, redis_open |-> TRUE, client_closed |-> FALSE,
                     log |-> <<>>, invocations |-> <<>>,
                     shutdown |-> [t \in ShutdownTasks |-> "none"],
                     file |-> file]

(* the message the loop has taken last: its place among the messages of the
   channel *)
Current(d) == Len(d.events) - Len(d.inbox)

(* the loop is left: finally self._running = False, listen() returns and the
   finally of run() calls shutdown() *)
ListenReturns(d) ==
    [d EXCEPT !.lpc = "stopped", !.running = FALSE,
              !.shutdown = [@ EXCEPT !["finally"] = "start"]]

(* the message is done with and the loop awaits the next one *)
Disposed(d, how) ==
    [d EXCEPT !.lpc = "waiting", !.log = Append(@, [event |-> Current(d), how |-> how])]

MissingChatOrDate_DateIgnored(chat, date) == ~Truthy(chat)

(* if not chat or not date *)
MissingChatOrDate(chat, date) == ~Truthy(chat) \/ ~Truthy(date)

AnalyzeCall_NoForce(chat, date) == [chat |-> chat, date |-> date, force |-> FALSE]

(* self.analyzer_service.analyze(chat=chat, date=date, window_size=..., force=True) *)
AnalyzeCall(chat, date) == [chat |-> chat, date |-> date, force |-> TRUE]

HandleEventCatches_JsonOnly(exc) == exc = "JSONDecodeError"

(* except json.JSONDecodeError / except Exception of _handle_event *)
HandleEventCatches(exc) == exc \in {"JSONDecodeError", "AttributeError"}

(* an exception raised inside _handle_event: logged there, or else caught
   by the except Exception of listen(), which ends the loop *)
EventRaises(d, exc) ==
    IF HandleEventCatches(exc) THEN Disposed(d, exc)
    ELSE ListenReturns([d EXCEPT !.log = Append(@, [event |-> Current(d), how |-> "loop ended"])])

StopRequested_Ignored(d) == FALSE

(* if not self._running: break *)
StopRequested(d) == ~d.running

LoopAwaitsMessage_WhileHandling == daemon.lpc \in {"waiting", "handling"}

(* async for message in self._pubsub.listen(): the loop takes a message only
   when await self._handle_event(...) of the message before has returned *)
LoopAwaitsMessage == daemon.lpc = "waiting"

(* one turn of the loop of listen() up to its next await: the check of
   _running, the skip of what is no message, and _handle_event with the
   handler of the daemon up to the await of analyze() *)
Deliver ==
    /\ LoopAwaitsMessage
    /\ daemon.subscribed
    /\ daemon.inbox # <<>>
    /\ LET message == Head(daemon.inbox)
           d == [daemon EXCEPT !.inbox = Tail(@)]
           event_json == message.data
           event_data == event_json.value
           event_type == Get(event_data, "event", None)
           chat == Get(event_data, "chat", None)
           date == Get(event_data, "date", None)
           call == AnalyzeCall(chat, date)
       IN  IF StopRequested(daemon)
           THEN /\ daemon' = ListenReturns(d)
                /\ UNCHANGED run
           ELSE IF message.type # "message"
           THEN /\ daemon' = [d EXCEPT !.log = Append(@, [event |-> Current(d),
                                                          how |-> "no message"])]
                /\ UNCHANGED run
           ELSE IF ~event_json.valid
           THEN /\ daemon' = EventRaises(d, "JSONDecodeError")
                /\ UNCHANGED run
           ELSE IF ~event_json.dict
           THEN /\ daemon' = EventRaises(d, "AttributeError")
                /\ UNCHANGED run
           ELSE IF event_type = "fetch_failed"
           THEN /\ daemon' = Disposed(d, "fetch failed")
                /\ UNCHANGED run
           ELSE IF event_type # "messages_fetched"
           THEN /\ daemon' = Disposed(d, "unknown event type")
                /\ UNCHANGED run
           ELSE IF MissingChatOrDate(chat, date)
           THEN /\ daemon' = Disposed(d, "missing chat or date")
                /\ UNCHANGED run
           ELSE /\ daemon' = [d EXCEPT !.lpc = "handling",
                                       !.invocations = Append(@, [event |-> Current(d),
                                                                  call |-> call])]
                /\ run' = StartRun(call.force, TRUE, DefaultBatchSize, daemon.file,
                                   1, NoOutcome)
    /\ UNCHANGED <<vars, chunking, extraction, merging, classifying, validating,
                   analysis_repo, task_queue>>

(* the subscription is gone while the loop awaits a message: the iteration
   over listen() ends *)
ListenEnds ==
    /\ daemon.lpc = "waiting"
    /\ ~daemon.subscribed
    /\ daemon' = ListenReturns(daemon)
    /\ UNCHANGED <<vars, chunking, extraction, merging, classifying, validating,
                   run, analysis_repo, task_queue>>

(* analyze() runs inside the handler *)
Handling == daemon.lpc = "handling"

(* complete() on a client whose HTTP client has been closed: httpx refuses
   to send *)
SendOnClosedClient ==
    /\ Handling
    /\ daemon.client_closed
    /\ run.pc = "complete"
    /\ run' = RunRaise(run, Uncaught("RuntimeError"))
    /\ UNCHANGED <<vars, chunking, extraction, merging, classifying, validating,
                   analysis_repo, daemon, task_queue>>

(* analyze() has returned or raised; the handler logs either and returns *)
HandlerReturns ==
    /\ Handling
    /\ run.pc = "done"
    /\ daemon' = Disposed(daemon, IF run.outcome.kind = "raised" THEN "analysis failed"
                                  ELSE "analysis completed")
    /\ UNCHANGED <<vars, chunking, extraction, merging, classifying, validating,
                   run, analysis_repo, task_queue>>

(* SIGTERM or SIGINT: asyncio.create_task(daemon.shutdown()) *)
Signal ==
    /\ daemon.shutdown["signal"] = "none"
    /\ daemon' = [daemon EXCEPT !.shutdown = [@ EXCEPT !["signal"] = "start"]]
    /\ UNCHANGED <<vars, chunking, extraction, merging, classifying, validating,
                   run, analysis_repo, task_queue>>

(* shutdown() from one await to the next: stop() and the unsubscribe, the
   close of the pubsub, the close of the Redis client, __aexit__ of the
   GigaChat client, the shutdown event *)
ShutdownStep(t) ==
    /\ daemon.shutdown[t] \in {"start", "unsubscribe", "close pubsub", "close redis", "aclose"}
    /\ daemon' =
         LET at == daemon.shutdown[t]
             to(pc) == [daemon.shutdown EXCEPT ![t] = pc]
         IN  IF at = "start"
             THEN [daemon EXCEPT !.running = FALSE, !.shutdown = to("unsubscribe")]
             ELSE IF at = "unsubscribe"
             THEN [daemon EXCEPT !.subscribed = FALSE, !.shutdown = to("close pubsub")]
             ELSE IF at = "close pubsub"
             THEN [daemon EXCEPT !.shutdown = to("close redis")]
             ELSE IF at = "close redis"
             THEN [daemon EXCEPT !.redis_open = FALSE, !.shutdown = to("aclose")]
             ELSE [daemon EXCEPT !.client_closed = TRUE, !.shutdown = to("done")]
    /\ UNCHANGED <<vars, chunking, extraction, merging, classifying, validating,
                   run, analysis_repo, task_queue>>

DaemonNext ==
    \/ Deliver
    \/ ListenEnds
    \/ Handling /\ CheckExisting
    \/ Handling /\ LoadMessages
    \/ Handling /\ ~daemon.client_closed /\ SendCompletion
    \/ SendOnClosedClient
    \/ Handling /\ \E o \in CompleteOutcomes : ReceiveBatch(o)
    \/ Handling /\ MergeBatches
    \/ Handling /\ Enrich
    \/ Handling /\ ValidateResult
    \/ Handling /\ Save
    \/ Handling /\ Return
    \/ HandlerReturns
    \/ Signal
    \/ \E t \in ShutdownTasks : ShutdownStep(t)

DaemonSpec == DaemonInit /\ [][DaemonNext]_<<vars, svars>>

(* the daemon on a day without a transcript: every analysis ends with the
   DataNotFoundError of load_messages *)
ListenMessages ==
    {m \in BusMessages : m.type = "subscribe" \/ m.data = FetchedEvent \/ ~m.data.valid}

ListenInit ==
    /\ now = 0
    /\ client = TRUE
    /\ max_retries = DefaultMaxRetries
    /\ retry_delay = DefaultRetryDelay
    /\ access_token = None
    /\ token_expires_at = Absent
    /\ calls = [c \in Callers |-> IdleCall]
    /\ chunking = NotRun
    /\ extraction = NotRun
    /\ merging = NotRun
    /\ classifying = NotRun
    /\ validating = NotRun
    /\ task_queue = NotRun
    /\ run = NotRun
    /\ analysis_repo = Absent
    /\ \E n \in 0..MaxEvents : \E events \in [1..n -> ListenMessages] :
           daemon = [events |-> events, inbox |-> events,
                     lpc |-> "waiting", running |-> TRUE,
                     subscribed |-> TRUE, redis_open |-> TRUE, client_closed |-> FALSE,
                     log |-> <<>>, invocations |-> <<>>,
                     shutdown |-> [t \in ShutdownTasks |-> "none"],
                     file |-> Absent]

ListenNext ==
    \/ Deliver
    \/ ListenEnds
    \/ Handling /\ CheckExisting
    \/ Handling /\ LoadMessages
    \/ HandlerReturns
    \/ Signal
    \/ \E t \in ShutdownTasks : ShutdownStep(t)

(* the event loop of asyncio runs every task that is ready *)
ListenSpec ==
    /\ ListenInit
    /\ [][ListenNext]_<<vars, svars>>
    /\ WF_<<vars, svars>>(ListenNext)

---------------------------------------------------------------------------
(* The analysis queue in Redis: AnalysisTaskQueue
   (src/scripts/queue_analysis_tasks.py) fills it and AnalysisWorker
   (src/scripts/analysis_worker.py) empties it.  The queue is the sorted set
   tg_analyzer:analysis_queue, whose members are task ids scored by priority,
   and one hash tg_analyzer:task:<task_id> per task.  Every Redis command is
   atomic and the processes interleave between their commands.  A sorted set
   orders its members by score and, at equal scores, by the bytes of the
   member; ZREVRANGE walks that order from its end. *)

Workers == {"w1", "w2"}

(* the dates of the tasks, as the day of 2025-11-<day> *)
TaskDates == {<<"0", "5">>, <<"1", "0">>}
(* priority: int = 5, and 10 for the most recent date *)
TaskPriorities == {5, 10}

(* task_id = f"{chat_name}:{date}" *)
TaskIdOf(chat_name, date) == <<chat_name, ":">> \o date

(* the order of two characters of a task id: digits in their order, before
   the other pieces *)
CharRank(ch) == IF IsDigit(ch) THEN DigitVal(ch) ELSE 10

RECURSIVE LexLess(_, _)
(* a < b for two members of a sorted set *)
LexLess(a, b) ==
    IF b = <<>> THEN FALSE
    ELSE IF a = <<>> THEN TRUE
    ELSE IF a[1] # b[1] THEN CharRank(a[1]) < CharRank(b[1])
    ELSE LexLess(Tail(a), Tail(b))

(* ZADD key {member: score} and ZREM key member on a sorted set kept as a
   function from its members to their scores *)
ZAdd(zset, member, score) ==
    [m \in DOMAIN zset \cup {member} |-> IF m = member THEN score ELSE zset[m]]
ZRem(zset, member) == [m \in DOMAIN zset \ {member} |-> zset[m]]

(* ZREVRANGE key 0 0: the member with the highest score, the greatest
   member among those of that score *)
ZRevRangeFirst(zset) ==
    CHOOSE m \in DOMAIN zset :
        \A o \in DOMAIN zset \ {m} :
            zset[o] < zset[m] \/ (zset[o] = zset[m] /\ LexLess(o, m))

(* the hash of a task: the mapping queue_task stores, the status the worker
   sets, and whether EXPIRE has been set on the key *)
TaskHash(chat_name, date, priority) ==
    [chat_name |-> chat_name, date |-> date, priority |-> priority,
     batch_size |-> DefaultBatchSize, status |-> None, expires |-> FALSE]

(* HSET key field value on the hashes; the key is created when missing *)
HSetStatus(hashes, task_id, status) ==
    IF task_id \in DOMAIN hashes
    THEN [hashes EXCEPT ![task_id].status = status]
    ELSE [k \in DOMAIN hashes \cup {task_id} |->
              IF k = task_id
              THEN [status |-> status, expires |-> FALSE]
              ELSE hashes[k]]

(* HSET key mapping=task: the fields of the mapping are written, the other
   fields and the expiry of an existing key stay *)
HSetMapping(hashes, task_id, task) ==
    [k \in DOMAIN hashes \cup {task_id} |->
         IF k # task_id THEN hashes[k]
         ELSE [task EXCEPT !.status = IF task_id \in DOMAIN hashes
                                      THEN hashes[task_id].status ELSE None,
                           !.expires = IF task_id \in DOMAIN hashes
                                       THEN hashes[task_id].expires ELSE FALSE]]

(* a worker between two tasks; zset and order are the queue as the last
   ZREVRANGE of the worker found it, kept until the task is marked *)
NoKeys == [k \in {} |-> 0]
IdleWorker ==
    [pc |-> "poll", task_id |-> <<>>, priority |-> 0, success |-> FALSE,
     zset |-> NoKeys, order |-> <<>>]

QueueInit ==
    /\ ClientUnused
    /\ chunking = NotRun
    /\ extraction = NotRun
    /\ merging = NotRun
    /\ classifying = NotRun
    /\ validating = NotRun
    /\ run = NotRun
    /\ analysis_repo = Absent
    /\ daemon = NotRun
    /\ task_queue = [zset |-> NoKeys, hashes |-> NoKeys,
                     order |-> <<>>, calls |-> 0,
                     producer |-> [pc |-> "idle", task_id |-> <<>>, priority |-> 0],
                     workers |-> [w \in Workers |-> IdleWorker]]

(* the task ids in the order in which they were queued: an id that is queued
   again while it is still in the queue keeps its place *)
Enqueued(order, zset, task_id) ==
    IF task_id \in DOMAIN zset /\ \E i \in 1..Len(order) : order[i] = task_id
    THEN order
    ELSE Append(SelectSeq(order, LAMBDA t : t # task_id), task_id)

(* queue_task up to its second command: the task id and the ZADD *)
QueueTaskZAdd(date, priority) ==
    /\ task_queue.producer.pc = "idle"
    /\ task_queue.calls < MaxQueueCalls
    /\ LET task_id == TaskIdOf("ru_python", date)
       IN  task_queue' = [task_queue EXCEPT
               !.zset = ZAdd(@, task_id, priority),
               !.order = Enqueued(@, task_queue.zset, task_id),
               !.calls = @ + 1,
               !.producer = [pc |-> "hset", task_id |-> task_id, priority |-> priority]]
    /\ UNCHANGED <<vars, chunking, extraction, merging, classifying, validating,
                   run, analysis_repo, daemon>>

(* queue_task: the HSET of the task details *)
QueueTaskHSet ==
    /\ task_queue.producer.pc = "hset"
    /\ LET p == task_queue.producer
       IN  task_queue' = [task_queue EXCEPT
               !.hashes = HSetMapping(@, p.task_id,
                                      TaskHash("ru_python", SubSeq(p.task_id, 3, Len(p.task_id)),
                                               p.priority)),
               !.producer = [pc |-> "idle", task_id |-> <<>>, priority |-> 0]]
    /\ UNCHANGED <<vars, chunking, extraction, merging, classifying, validating,
                   run, analysis_repo, daemon>>

(* get_next_task: the ZREVRANGE; on an empty queue the worker sleeps and
   polls again *)
ZRevRange(w) ==
    /\ task_queue.workers[w].pc = "poll"
    /\ DOMAIN task_queue.zset # {}
    /\ LET task_id == ZRevRangeFirst(task_queue.zset)
       IN  task_queue' = [task_queue EXCEPT
               !.workers[w] = [@ EXCEPT !.pc = "hgetall", !.task_id = task_id,
                                        !.priority = task_queue.zset[task_id],
                                        !.zset = task_queue.zset,
                                        !.order = task_queue.order]]
    /\ UNCHANGED <<vars, chunking, extraction, merging, classifying, validating,
                   run, analysis_repo, daemon>>

(* get_next_task: the HGETALL; an id without a hash is an orphan *)
HGetAll(w) ==
    /\ task_queue.workers[w].pc = "hgetall"
    /\ LET me == task_queue.workers[w]
       IN  IF me.task_id \in DOMAIN task_queue.hashes
           THEN task_queue' = [task_queue EXCEPT !.workers[w] = [me EXCEPT !.pc = "mark"]]
           ELSE task_queue' = [task_queue EXCEPT !.workers[w] = [me EXCEPT !.pc = "orphan"]]
    /\ UNCHANGED <<vars, chunking, extraction, merging, classifying, validating,
                   run, analysis_repo, daemon>>

(* get_next_task: the ZREM of an orphaned id, return None *)
ZRemOrphan(w) ==
    /\ task_queue.workers[w].pc = "orphan"
    /\ task_queue' = [task_queue EXCEPT
           !.zset = ZRem(@, task_queue.workers[w].task_id),
           !.workers[w] = IdleWorker]
    /\ UNCHANGED <<vars, chunking, extraction, merging, classifying, validating,
                   run, analysis_repo, daemon>>

(* mark_task_processing *)
MarkTaskProcessing(w) ==
    /\ task_queue.workers[w].pc = "mark"
    /\ task_queue' = [task_queue EXCEPT
           !.hashes = HSetStatus(@, task_queue.workers[w].task_id, "processing"),
           !.workers[w] = [@ EXCEPT !.pc = "execute", !.zset = NoKeys, !.order = <<>>]]
    /\ UNCHANGED <<vars, chunking, extraction, merging, classifying, validating,
                   run, analysis_repo, daemon>>

(* execute_analysis: the script run as a subprocess succeeds or not *)
ExecuteAnalysis(w, success) ==
    /\ task_queue.workers[w].pc = "execute"
    /\ task_queue' = [task_queue EXCEPT
           !.workers[w] = [@ EXCEPT !.pc = "zrem", !.success = success]]
    /\ UNCHANGED <<vars, chunking, extraction, merging, classifying, validating,
                   run, analysis_repo, daemon>>

(* mark_task_completed: the ZREM *)
ZRemCompleted(w) ==
    /\ task_queue.workers[w].pc = "zrem"
    /\ task_queue' = [task_queue EXCEPT
           !.zset = ZRem(@, task_queue.workers[w].task_id),
           !.workers[w] = [@ EXCEPT !.pc = "status"]]
    /\ UNCHANGED <<vars, chunking, extraction, merging, classifying, validating,
                   run, analysis_repo, daemon>>

(* mark_task_completed: the status and the EXPIRE of the hash *)
MarkTaskCompleted(w) ==
    /\ task_queue.workers[w].pc = "status"
    /\ LET me == task_queue.workers[w]
           hashes == HSetStatus(task_queue.hashes, me.task_id,
                                IF me.success THEN "completed" ELSE "failed")
       IN  task_queue' = [task_queue EXCEPT
               !.hashes = [hashes EXCEPT ![me.task_id].expires = TRUE],
               !.workers[w] = IdleWorker]
    /\ UNCHANGED <<vars, chunking, extraction, merging, classifying, validating,
                   run, analysis_repo, daemon>>

(* the hour of the EXPIRE has passed: Redis deletes the hash *)
Expire(task_id) ==
    /\ task_id \in DOMAIN task_queue.hashes
    /\ task_queue.hashes[task_id].expires
    /\ task_queue' = [task_queue EXCEPT
           !.hashes = [k \in DOMAIN @ \ {task_id} |-> @[k]]]
    /\ UNCHANGED <<vars, chunking, extraction, merging, classifying, validating,
                   run, analysis_repo, daemon>>

QueueNext ==
    \/ \E date \in TaskDates, priority \in TaskPriorities : QueueTaskZAdd(date, priority)
    \/ QueueTaskHSet
    \/ \E w \in Workers : ZRevRange(w)
    \/ \E w \in Workers : HGetAll(w)
    \/ \E w \in Workers : ZRemOrphan(w)
    \/ \E w \in Workers : MarkTaskProcessing(w)
    \/ \E w \in Workers : \E success \in BOOLEAN : ExecuteAnalysis(w, success)
    \/ \E w \in Workers : ZRemCompleted(w)
    \/ \E w \in Workers : MarkTaskCompleted(w)
    \/ \E date \in TaskDates : Expire(TaskIdOf("ru_python", date))

QueueSpec == QueueInit /\ [][QueueNext]_<<vars, svars>>

---------------------------------------------------------------------------
(* what the network can deliver *)

OAuthFailures == {"unauthorized", "http_error", "invalid_body", "transport"}

OAuthOutcomes ==
    [kind : {"ok"}, access_token : Tokens,
     expires_at : {(now + l) * 1000 : l \in TokenLives}]
    \cup [kind : {"out_of_range"}, access_token : Tokens]
    \cup [kind : OAuthFailures]

RequestOutcomes ==
    [kind : {"response"}, status : Statuses \ {429}, retry_after : {Absent}]
    \cup [kind : {"response"}, status : {429}, retry_after : RetryAfterHeaders]
    \cup [kind : {"timeout", "transport"}]

---------------------------------------------------------------------------
(* the client *)

Init ==
    /\ now = 0
    /\ client = FALSE
    /\ max_retries \in {OrDefault(a, DefaultMaxRetries) : a \in MaxRetriesArgs}
    /\ retry_delay \in {OrDefault(a, DefaultRetryDelay) : a \in RetryDelayArgs}
    /\ access_token = None
    /\ token_expires_at = Absent
    /\ calls = [c \in Callers |-> IdleCall]
    /\ ServiceIdle

(* __aenter__ *)
AEnter ==
    /\ ~client
    /\ client' = TRUE
    /\ UNCHANGED svars
    /\ UNCHANGED <<now, max_retries, retry_delay, access_token, token_expires_at, calls>>

(* time passing while coroutines wait *)
Tick(d) ==
    /\ now + d <= MaxTime
    /\ now' = now + d
    /\ UNCHANGED svars
    /\ UNCHANGED <<client, max_retries, retry_delay, access_token, token_expires_at, calls>>

(* complete()/get_models() -> _request_with_retry up to its first await:
   the client check, then _get_access_token up to the cached return or the
   OAuth POST *)
BeginCall(c) ==
    /\ calls[c].pc = "idle"
    /\ now < MaxTime
    /\ calls' = [calls EXCEPT ![c] =
         IF ~client
         THEN Raise(@, APIError(Absent))
         ELSE IF CachedTokenValid
         THEN EnterLoop(@, access_token, token_expires_at)
         ELSE [@ EXCEPT !.pc = "oauth", !.exchanges = @ + 1]]
    /\ UNCHANGED svars
    /\ UNCHANGED <<now, client, max_retries, retry_delay, access_token, token_expires_at>>

(* a call made while no other call of this client is running *)
StartCall(c) ==
    /\ \A d \in Callers \ {c} : calls[d].pc = "idle"
    /\ BeginCall(c)

(* a call made whatever the other coroutines are doing *)
StartConcurrentCall(c) == BeginCall(c)

(* _get_access_token after the await of the OAuth POST *)
OAuthResponse(c, r) ==
    /\ calls[c].pc = "oauth"
    /\ access_token' = IF r.kind \in {"ok", "out_of_range"} THEN r.access_token ELSE access_token
    /\ token_expires_at' =
         IF r.kind = "ok" THEN Some(FromTimestampMs(r.expires_at)) ELSE token_expires_at
    /\ calls' = [calls EXCEPT ![c] =
         IF r.kind = "ok"
         THEN EnterLoop([@ EXCEPT !.oauth = r], access_token', token_expires_at')
         ELSE OAuthFailed(@, r)]
    /\ UNCHANGED svars
    /\ UNCHANGED <<now, client, max_retries, retry_delay>>

(* the loop body of _request_with_retry after the await of the request *)
Response(c, o) ==
    /\ calls[c].pc = "request"
    /\ calls' = [calls EXCEPT ![c] = HandleOutcome([@ EXCEPT !.responses = Append(@, o)], o)]
    /\ UNCHANGED svars
    /\ UNCHANGED <<now, client, max_retries, retry_delay, access_token, token_expires_at>>

(* asyncio.sleep returns, `continue` starts the next attempt *)
WakeUp(c) ==
    /\ calls[c].pc = "sleep"
    /\ now' = IF now < calls[c].wakeAt THEN calls[c].wakeAt ELSE now
    /\ calls' = [calls EXCEPT ![c] = SendAttempt(@, @.attempt + 1, now')]
    /\ UNCHANGED svars
    /\ UNCHANGED <<client, max_retries, retry_delay, access_token, token_expires_at>>

(* the coroutine is done with the outcome and may call the client again *)
Finish(c) ==
    /\ calls[c].pc = "done"
    /\ calls' = [calls EXCEPT ![c] = IdleCall]
    /\ UNCHANGED svars
    /\ UNCHANGED <<now, client, max_retries, retry_delay, access_token, token_expires_at>>

Next ==
    \/ AEnter
    \/ \E d \in TickSteps : Tick(d)
    \/ \E c \in Callers : StartCall(c)
    \/ \E c \in Callers : \E r \in OAuthOutcomes : OAuthResponse(c, r)
    \/ \E c \in Callers : \E o \in RequestOutcomes : Response(c, o)
    \/ \E c \in Callers : WakeUp(c)
    \/ \E c \in Callers : Finish(c)

Spec == Init /\ [][Next]_vars

(* NumCallers coroutines, each making one call on the same client (as under
   asyncio.gather); the clock advances with their sleeps *)
ConcNext ==
    \/ AEnter
    \/ \E c \in Callers : StartConcurrentCall(c)
    \/ \E c \in Callers : \E r \in OAuthOutcomes : OAuthResponse(c, r)
    \/ \E c \in Callers : \E o \in RequestOutcomes : Response(c, o)
    \/ \E c \in Callers : WakeUp(c)

(* a client built with max_retries=2 and the default retry delay *)
ConcInit ==
    /\ Init
    /\ max_retries = 2
    /\ retry_delay = DefaultRetryDelay

ConcSpec == ConcInit /\ [][ConcNext]_vars

(* every awaited response arrives (the HTTP client has a timeout) and every
   sleep ends *)
FairSpec ==
    /\ Spec
    /\ \A c \in Callers : WF_vars(\E r \in OAuthOutcomes : OAuthResponse(c, r))
    /\ \A c \in Callers : WF_vars(\E o \in RequestOutcomes : Response(c, o))
    /\ \A c \in Callers : WF_vars(WakeUp(c))

---------------------------------------------------------------------------
(* Properties *)

IsStatus(o, codes) == o.kind = "response" /\ o.status \in codes
ServerErrors == 500..599
HeaderSeconds(h) == IF h = Absent THEN 60 ELSE 120
NumericHeaders == {Absent, Some(<<"1", "2", "0">>)}
InFlight(c) == calls[c].pc \in {"oauth", "request", "sleep"}
Done(c) == calls[c].pc = "done"
LastResponse(c) == calls[c].responses[Len(calls[c].responses)]
Retried(c, k) ==
    \/ k = Len(calls[c].responses) /\ calls[c].pc = "sleep" /\ calls[c].sent = k
    \/ k < Len(calls[c].responses)
    \/ k = Len(calls[c].responses) /\ calls[c].pc = "request" /\ calls[c].sent = k + 1
FailedAt(c, k) ==
    /\ k = Len(calls[c].responses)
    /\ Done(c)
    /\ calls[c].sent = k
    /\ Len(calls[c].sleeps) = k - 1

(* C1: every request attempt a call sends carries a bearer token with
   now + 5 minutes < expiresAt at the moment the attempt is sent. *)
C1_TokenFreshAtEverySend ==
    \A c \in Callers : calls[c].sent > 0 => calls[c].sentFresh

(* C2: at most one token exchange of a client is in flight at any time. *)
C2_OneExchangeInFlight ==
    Cardinality({c \in Callers : calls[c].pc = "oauth"}) <= 1

(* C3: _get_access_token returns the cached token without an exchange when a
   token is cached and now + 5 minutes < expiresAt; in every other case it
   performs exactly one exchange, and a successful exchange replaces the cached
   value and the cached expiry by those of the response and returns the new
   value. *)
C3_ResolveStep(c) ==
    /\ (calls[c].pc = "idle" /\ calls'[c].pc # "idle" /\ client) =>
          IF /\ access_token # None
             /\ token_expires_at # Absent
             /\ (now + 300) * 1000 < token_expires_at[1]
          THEN /\ calls'[c].exchanges = 0
               /\ calls'[c].pc # "oauth"
               /\ calls'[c].bearer = access_token
               /\ UNCHANGED <<access_token, token_expires_at>>
          ELSE /\ calls'[c].exchanges = 1
               /\ calls'[c].pc = "oauth"
    /\ (calls[c].pc = "oauth" /\ calls'[c] # calls[c]) =>
          /\ calls'[c].pc # "oauth"
          /\ calls'[c].exchanges = 1
          /\ calls'[c].oauth.kind = "ok" =>
                /\ access_token' = calls'[c].oauth.access_token
                /\ token_expires_at' = <<calls'[c].oauth.expires_at>>
                /\ calls'[c].bearer = calls'[c].oauth.access_token
C3_CachedOrOneExchange == [][\A c \in Callers : C3_ResolveStep(c)]_vars

C3_Witness ==
    \E c \in Callers :
        /\ calls[c].exchanges = 0
        /\ calls[c].sent > 0
        /\ calls[c].bearer = access_token

(* C4: a failed token exchange makes the call fail with AuthError after exactly
   one exchange and without any request to the API. *)
C4_ExchangeFailureIsAuthError ==
    \A c \in Callers :
        calls[c].oauth.kind \notin {"none", "ok"} =>
            /\ Done(c)
            /\ calls[c].result = [kind |-> "AuthError", status_code |-> <<401>>]
            /\ calls[c].exchanges = 1
            /\ calls[c].sent = 0

C4_Witness ==
    \E c \in Callers : Done(c) /\ calls[c].oauth.kind = "unauthorized"

(* C5: with maxRetries >= 1 a call sends at most maxRetries requests and always
   terminates, returning a 2xx response or raising an error. *)
C5_BoundedAttempts ==
    /\ [](\A c \in Callers :
            /\ max_retries >= 1 => calls[c].sent <= max_retries
            /\ Done(c) =>
                 \/ calls[c].result.kind = "response"
                      /\ calls[c].result.status_code[1] \in 200..299
                 \/ calls[c].result.kind \in
                      {"APIError", "AuthError", "RateLimitError", "TimeoutError",
                       "ValueError", "TransportError"})
    /\ \A c \in Callers : InFlight(c) ~> Done(c)

C5_Witness ==
    \E c \in Callers : Done(c) /\ max_retries = 3 /\ calls[c].sent = 3

(* C6: a 429 on an attempt that is not the last is followed by a sleep of
   exactly the Retry-After seconds (60 without the header), whatever the
   attempt number, and then by the next attempt. *)
C6_RateLimitSleep ==
    \A c \in Callers : \A k \in 1..Len(calls[c].responses) :
        ( /\ IsStatus(calls[c].responses[k], {429})
          /\ calls[c].responses[k].retry_after \in NumericHeaders
          /\ k < max_retries ) =>
            /\ Len(calls[c].sleeps) >= k
            /\ calls[c].sleeps[k] = HeaderSeconds(calls[c].responses[k].retry_after)
            /\ Retried(c, k)

C6_Witness ==
    \E c \in Callers :
        /\ calls[c].sleeps = <<120, 120>>
        /\ calls[c].sent = 3
        /\ \A k \in 1..2 : IsStatus(calls[c].responses[k], {429})

(* C7: a 5xx on attempt k (0-based, not the last) is followed by a sleep of
   retryDelay * 2^k and a retry; three 500s with retryDelay = 1 and
   maxRetries = 3 give the sleeps 1, 2 and then APIError. *)
C7_ServerErrorBackoff ==
    \A c \in Callers :
        /\ \A k \in 1..Len(calls[c].responses) :
             (IsStatus(calls[c].responses[k], ServerErrors) /\ k < max_retries) =>
                /\ Len(calls[c].sleeps) >= k
                /\ calls[c].sleeps[k] = retry_delay * 2 ^ (k - 1)
                /\ Retried(c, k)
        /\ ( /\ max_retries = 3
             /\ retry_delay = 1
             /\ Len(calls[c].responses) = 3
             /\ \A k \in 1..3 : IsStatus(calls[c].responses[k], {500}) ) =>
                /\ calls[c].sleeps = <<1, 2>>
                /\ Done(c)
                /\ calls[c].result = [kind |-> "APIError", status_code |-> <<500>>]
                /\ calls[c].sent = 3

C7_Witness ==
    \E c \in Callers :
        /\ max_retries = 3
        /\ retry_delay = 1
        /\ Len(calls[c].responses) = 3
        /\ \A k \in 1..3 : IsStatus(calls[c].responses[k], {500})

(* C8: a timeout on attempt k (0-based, not the last) is followed by a sleep of
   retryDelay * 2^k and a retry; a timeout on the last attempt raises
   TimeoutError with no further sleep or request. *)
C8_TimeoutBackoff ==
    \A c \in Callers : \A k \in 1..Len(calls[c].responses) :
        calls[c].responses[k].kind = "timeout" =>
            IF k < max_retries
            THEN /\ Len(calls[c].sleeps) >= k
                 /\ calls[c].sleeps[k] = retry_delay * 2 ^ (k - 1)
                 /\ Retried(c, k)
            ELSE /\ FailedAt(c, k)
                 /\ calls[c].result.kind = "TimeoutError"

C8_Witness ==
    \E c \in Callers :
        /\ max_retries = 3
        /\ Len(calls[c].responses) = 3
        /\ \A k \in 1..3 : calls[c].responses[k].kind = "timeout"
        /\ calls[c].sleeps = <<2, 4>>

(* C9: a non-2xx status that is neither 429 nor 5xx fails the call at once with
   APIError carrying the status; no sleep and no attempt follow it. *)
C9_OtherStatusFailsAtOnce ==
    \A c \in Callers : \A k \in 1..Len(calls[c].responses) :
        ( /\ calls[c].responses[k].kind = "response"
          /\ calls[c].responses[k].status \notin (200..299) \cup {429} \cup ServerErrors ) =>
            /\ FailedAt(c, k)
            /\ calls[c].result =
                 [kind |-> "APIError", status_code |-> <<calls[c].responses[k].status>>]

C9_Witness ==
    \E c \in Callers :
        /\ Len(calls[c].responses) = 2
        /\ IsStatus(calls[c].responses[1], {429})
        /\ IsStatus(calls[c].responses[2], {404})
        /\ Done(c)

(* C10: when all maxRetries attempts are used up, the call raises
   RateLimitError if the last response is a 429 and APIError with the status if
   it is a 5xx. *)
C10_ExhaustedErrorKind ==
    \A c \in Callers :
        (Done(c) /\ max_retries >= 1 /\ Len(calls[c].responses) = max_retries) =>
            /\ IsStatus(LastResponse(c), {429}) =>
                  calls[c].result.kind = "RateLimitError"
            /\ IsStatus(LastResponse(c), ServerErrors) =>
                  calls[c].result =
                     [kind |-> "APIError", status_code |-> <<LastResponse(c).status>>]

RECURSIVE Concat(_)
Concat(seqs) == IF seqs = <<>> THEN <<>> ELSE Head(seqs) \o Concat(Tail(seqs))

(* C11: for batchSize > 0 chunking gives ceil(n/batchSize) batches, each of
   batchSize messages except possibly the last, whose concatenation in batch
   order is the original sequence. *)
C11_ChunksPartition ==
    (chunking.done /\ chunking.batch_size > 0) =>
        LET n == Len(chunking.msgs)
            b == chunking.batch_size
            c == chunking.chunks
        IN  /\ Len(c) = (n + b - 1) \div b
            /\ \A k \in 1..Len(c) : Len(c[k]) > 0
            /\ \A k \in 1..(Len(c) - 1) : Len(c[k]) = b
            /\ Len(c) > 0 => Len(c[Len(c)]) = n - b * (Len(c) - 1)
            /\ Concat(c) = chunking.msgs

C11_Witness ==
    /\ chunking.done
    /\ chunking.batch_size = 3
    /\ Len(chunking.msgs) = 10
    /\ Len(chunking.chunks) = 4
    /\ Len(chunking.chunks[4]) = 1

SetMin(S) == CHOOSE x \in S : \A y \in S : x <= y

(* positions of the opening fences: tagged as JSON, and any *)
TaggedFences(text) ==
    {i \in 1..(Len(text) - 1) : text[i] = Fence /\ text[i + 1] = "json"}
AnyFences(text) == {i \in 1..Len(text) : text[i] = Fence}

(* the texts a fenced reply may stand for: what lies between the opening
   fence whose last piece is at position open and the next fence; where no
   fence follows, what lies after the opening fence, or the whole reply *)
Fenced(text, open) ==
    LET closing == {j \in (open + 1)..Len(text) : text[j] = Fence}
    IN  IF closing # {}
        THEN {Strip(SubSeq(text, open + 1, SetMin(closing) - 1))}
        ELSE {Strip(SubSeq(text, open + 1, Len(text))), Strip(text)}

ClaimedJson(text) ==
    IF TaggedFences(text) # {} THEN Fenced(text, SetMin(TaggedFences(text)) + 1)
    ELSE IF AnyFences(text) # {} THEN Fenced(text, SetMin(AnyFences(text)))
    ELSE {Strip(text)}

(* C12: the JSON is sought in the content between the first JSON-tagged fence
   and the next fence, else between the first pair of fences, else in the
   whole reply, and text that is not JSON is a parse failure. *)
C12_ExtractedBetweenFences ==
    extraction.done =>
        /\ Strip(extraction.json_text) \in ClaimedJson(extraction.response_text)
        /\ extraction.outcome.kind = "parsed"
               <=> Strip(extraction.json_text) = <<JsonObject>>

(* the same where every opening fence is followed by a closing one *)
C12_ClosedFences ==
    LET text == extraction.response_text
        open == IF TaggedFences(text) # {} THEN SetMin(TaggedFences(text)) + 1
                ELSE IF AnyFences(text) # {} THEN SetMin(AnyFences(text))
                ELSE 0
    IN  (extraction.done /\ (open = 0 \/ \E j \in (open + 1)..Len(text) : text[j] = Fence))
            => C12_ExtractedBetweenFences

(* trim and lowercase, said without the code's helpers *)
Trimmed(topic) ==
    LET inked == {i \in 1..Len(topic) : topic[i] # Space}
    IN  IF inked = {} THEN <<>>
        ELSE SubSeq(topic, SetMin(inked), Len(topic) + 1 - SetMin({Len(topic) + 1 - i : i \in inked}))
KeyOf(topic) == [i \in 1..Len(Trimmed(topic)) |-> LowerChar(Trimmed(topic)[i])]

(* the records of a key, by their places in the input *)
PlacesOf(discussions, key) ==
    {i \in 1..Len(discussions) : KeyOf(discussions[i].topic) = key}
InputKeys(discussions) ==
    {KeyOf(discussions[i].topic) : i \in 1..Len(discussions)} \ {<<>>}
Elements(xs) == {xs[i] : i \in 1..Len(xs)}

(* C13: the merged list has one entry per distinct non-empty normalized
   topic of the input: no two entries share a key and no entry has an empty
   one. *)
C13_OneEntryPerKey ==
    merging.done =>
        LET m == merging.merged
        IN  /\ \A i, j \in 1..Len(m) : KeyOf(m[i].topic) = KeyOf(m[j].topic) => i = j
            /\ \A i \in 1..Len(m) : KeyOf(m[i].topic) # <<>>
            /\ Len(m) = Cardinality(InputKeys(merging.discussions))

C13_Witness ==
    /\ merging.done
    /\ Len(merging.discussions) = 3
    /\ merging.discussions[1].topic = <<"a">>
    /\ merging.discussions[2].topic = <<Space>>
    /\ merging.discussions[3].topic = <<Space, "A">>
    /\ Len(merging.merged) = 1
    /\ merging.merged[1].topic = <<"a">>

(* C14: merging a merged list again changes nothing, field for field and in
   the same order. *)
C14_MergeIdempotent ==
    merging.done => MergeDiscussions(merging.merged) = merging.merged

C14_Witness ==
    /\ merging.done
    /\ Len(merging.discussions) = 3
    /\ Len(merging.merged) = 1
    /\ Len(merging.merged[1].keywords) = KeywordCap
    /\ merging.merged[1].summary = "2"
    /\ Len(merging.merged[1].participants) = 3

Permuted(xs, p) == [i \in 1..Len(xs) |-> xs[p[i]]]
EntryOf(merged, key) == merged[CHOOSE i \in 1..Len(merged) : KeyOf(merged[i].topic) = key]
MergedKeys(merged) == {KeyOf(merged[i].topic) : i \in 1..Len(merged)}
Unions(merged) ==
    {<<KeyOf(merged[i].topic), Elements(merged[i].message_links),
       Elements(merged[i].participants)>> : i \in 1..Len(merged)}

(* C15: the merged keys, and under each key the set of message links and the
   set of participants, are the same for every order of the records: each is
   the union over the records of the key. *)
C15_UnionsOrderIndependent ==
    merging.done =>
        LET d == merging.discussions
            m == merging.merged
        IN  /\ MergedKeys(m) = InputKeys(d)
            /\ \A k \in MergedKeys(m) :
                   /\ Elements(EntryOf(m, k).message_links) =
                          UNION {Elements(Get(d[i], "message_links", <<>>)) : i \in PlacesOf(d, k)}
                   /\ Elements(EntryOf(m, k).participants) =
                          UNION {Elements(Get(d[i], "participants", <<>>)) : i \in PlacesOf(d, k)}
            /\ \A p \in Permutations(1..Len(d)) :
                   Unions(MergeDiscussions(Permuted(d, p))) = Unions(m)

C15_Witness ==
    /\ merging.done
    /\ Len(merging.discussions) = 3
    /\ Len(merging.merged) = 2
    /\ merging.merged[1].message_links = <<"l2", "l3", "l1">>
    /\ merging.merged[1].participants = <<"p2", "p3", "p1">>

(* the records of a key all carry a practical_value *)
Valued(discussions, key) ==
    \A i \in PlacesOf(discussions, key) : "practical_value" \in DOMAIN discussions[i]
MaxValue(discussions, key) ==
    CHOOSE v \in {discussions[i].practical_value : i \in PlacesOf(discussions, key)} :
        \A i \in PlacesOf(discussions, key) : discussions[i].practical_value <= v

(* C16: a later record of a key takes over summary, expert comment and
   practical value exactly when its practical value is strictly greater than
   the entry's; the merged practical value is the greatest of the key's
   records and the summary and expert comment are those of the earliest
   record that has it. *)
C16_HigherValueWins ==
    merging.done =>
        LET d == merging.discussions
            m == merging.merged
        IN  /\ \A j \in 2..Len(d) :
                   LET k == KeyOf(d[j].topic)
                       before == MergeDiscussions(SubSeq(d, 1, j - 1))
                       after == MergeDiscussions(SubSeq(d, 1, j))
                   IN  (k \in MergedKeys(before) /\ "practical_value" \in DOMAIN d[j]) =>
                           IF d[j].practical_value > EntryOf(before, k).practical_value
                           THEN /\ EntryOf(after, k).summary = d[j].summary
                                /\ EntryOf(after, k).expert_comment = d[j].expert_comment
                                /\ EntryOf(after, k).practical_value = d[j].practical_value
                           ELSE /\ EntryOf(after, k).summary = EntryOf(before, k).summary
                                /\ EntryOf(after, k).expert_comment = EntryOf(before, k).expert_comment
                                /\ EntryOf(after, k).practical_value = EntryOf(before, k).practical_value
            /\ \A k \in MergedKeys(m) :
                   Valued(d, k) =>
                       LET first == SetMin({i \in PlacesOf(d, k) :
                                               d[i].practical_value = MaxValue(d, k)})
                       IN  /\ EntryOf(m, k).practical_value = MaxValue(d, k)
                           /\ EntryOf(m, k).summary = d[first].summary
                           /\ EntryOf(m, k).expert_comment = d[first].expert_comment

C16_Witness ==
    /\ merging.done
    /\ Len(merging.discussions) = 3
    /\ Len(merging.merged) = 1
    /\ Get(merging.discussions[1], "practical_value", 0) = 5
    /\ Get(merging.discussions[2], "practical_value", 0) = 8
    /\ Get(merging.discussions[3], "practical_value", 0) = 8
    /\ merging.merged[1].practical_value = 8
    /\ merging.merged[1].summary = "2"
    /\ merging.merged[1].expert_comment = "2"

(* C17: the priority is high iff participantCount >= 5 or messageCount >= 10
   or practicalValue >= 8; otherwise medium iff participantCount >= 3 or
   messageCount >= 5 or practicalValue >= 5; otherwise low.  (5,0,0) is high,
   (3,0,0) medium and (2,4,4) low. *)
C17_PriorityClasses ==
    classifying.done =>
        LET pc == classifying.participant_count
            mc == classifying.message_count
            pv == classifying.practical_value
            high == pc >= 5 \/ mc >= 10 \/ pv >= 8
            medium == pc >= 3 \/ mc >= 5 \/ pv >= 5
        IN  /\ classifying.priority = "high" <=> high
            /\ classifying.priority = "medium" <=> (~high /\ medium)
            /\ classifying.priority = "low" <=> (~high /\ ~medium)
            /\ <<pc, mc, pv>> = <<5, 0, 0>> => classifying.priority = "high"
            /\ <<pc, mc, pv>> = <<3, 0, 0>> => classifying.priority = "medium"
            /\ <<pc, mc, pv>> = <<2, 4, 4>> => classifying.priority = "low"

C17_Witness ==
    /\ classifying.done
    /\ classifying.participant_count = 2
    /\ classifying.message_count = 4
    /\ classifying.practical_value = 4
    /\ classifying.priority = "low"

(* the three checks of a link, said of its parts *)
CanonicalPrefix(link, username) ==
    Len(link) >= 3 /\ link[1] = "https://t.me" /\ link[2] = username
IntegerId(link) ==
    LET id == link[Len(link)]
    IN  id # <<>> /\ \A i \in 1..Len(id) : id[i] \in {"0", "1", "2", "3", "4", "5", "6", "7", "8", "9"}
Passes(link, username, ids) ==
    /\ CanonicalPrefix(link, username)
    /\ IntegerId(link)
    /\ DecimalValue(link[Len(link)]) \in ids

(* the links of all discussions, in order, each with its topic *)
RECURSIVE AllLinks(_)
AllLinks(discussions) ==
    IF discussions = <<>> THEN <<>>
    ELSE [j \in 1..Len(Head(discussions).message_links) |->
              [topic |-> Head(discussions).topic, link |-> Head(discussions).message_links[j]]]
         \o AllLinks(Tail(discussions))

(* C19: a violation is reported for a link exactly when it lacks the prefix
   https://t.me/<username>/, or its last part is not an integer, or that
   integer is not a valid message id; the list is empty iff every link of
   every discussion passes. *)
C19_ViolationsReported ==
    validating.done =>
        LET v == validating
            all == AllLinks(v.discussions)
            IsBad(l) == ~Passes(l.link, v.chat_username, v.message_ids)
            bad == SelectSeq(all, IsBad)
        IN  /\ Len(v.errors) = Len(bad)
            /\ \A i \in 1..Len(bad) :
                   /\ v.errors[i].topic = bad[i].topic
                   /\ v.errors[i].link = bad[i].link
                   /\ v.errors[i].kind =
                          IF ~CanonicalPrefix(bad[i].link, v.chat_username)
                          THEN "Wrong username in link"
                          ELSE IF ~IntegerId(bad[i].link) THEN "Invalid link format"
                          ELSE "not in analyzed messages"
            /\ v.errors = <<>> <=>
                   \A i \in 1..Len(v.discussions) :
                       \A j \in 1..Len(v.discussions[i].message_links) :
                           Passes(v.discussions[i].message_links[j], v.chat_username, v.message_ids)

C19_Witness ==
    /\ validating.done
    /\ validating.message_ids = {111}
    /\ Len(validating.discussions) = 2
    /\ validating.discussions[1].message_links
           = <<(<<"https://t.me", "ru_python", Id2641549>>), (<<"https://t.me", "ru_python", Id111>>)>>
    /\ validating.discussions[2].message_links = <<(<<"https://t.me", "other", Id2641549>>)>>
    /\ Len(validating.errors) = 2
    /\ validating.errors[1].kind = "not in analyzed messages"
    /\ validating.errors[2].kind = "Wrong username in link"

(* classify, as the three classes of C17 *)
Classified(pc, mc, pv) ==
    IF pc >= 5 \/ mc >= 10 \/ pv >= 8 THEN "high"
    ELSE IF pc >= 3 \/ mc >= 5 \/ pv >= 5 THEN "medium"
    ELSE "low"

Enriched(discussions) ==
    \A i \in 1..Len(discussions) :
        LET d == discussions[i]
        IN  /\ d.message_count = Len(d.message_links)
            /\ d.participant_count = Len(d.participants)
            /\ d.priority = Classified(d.participant_count, d.message_count, d.practical_value)

(* C18: in every result that a run of the pipeline saves and returns, each
   discussion has messageCount = |messageLinks|, participantCount =
   |participants| and priority = classify(participantCount, messageCount,
   practicalValue). *)
C18_SavedResultEnriched ==
    /\ run.pc # "start" /\ run.saved # Absent =>
           /\ Enriched(run.saved[1].discussions)
           /\ analysis_repo = run.saved
    /\ run.pc = "done" /\ run.outcome.kind = "returned" =>
           /\ Enriched(run.outcome.value.discussions)
           /\ run.saved = Some(run.outcome.value)

C18_Witness ==
    /\ run.pc = "done"
    /\ run.outcome.kind = "returned"
    /\ run.batch_size = 0
    /\ Len(run.outcome.value.discussions) = 2
    /\ run.outcome.value.discussions[1].participants = <<(<<"p1">>), (<<"p2">>), (<<"p3">>)>>
    /\ run.outcome.value.discussions[1].participant_count = 3
    /\ run.outcome.value.discussions[1].priority = "medium"
    /\ run.outcome.value.discussions[2].message_count = 2
    /\ run.outcome.value.discussions[2].priority = "high"

(* C20: link validation is advisory: whatever it reports, the run goes on to
   save and return the result, and validation leaves the discussions as they
   were, offending links included. *)
C20_ValidationAdvisory ==
    [][/\ run.pc = "validate" =>
              /\ run'.pc = "save"
              /\ run'.result = run.result
       /\ (run.pc = "save" /\ run.errors # <<>>) =>
              /\ run'.pc = "return"
              /\ run'.result = run.result
              /\ analysis_repo' # Absent
              /\ analysis_repo'[1].discussions = run.result
       /\ (run.pc = "return" /\ run.errors # <<>>) =>
              /\ run'.pc = "done"
              /\ run'.outcome.kind = "returned"
              /\ run'.outcome.value.discussions = run.result
              /\ UNCHANGED analysis_repo]_svars

C20_Witness ==
    /\ run.pc = "done"
    /\ run.outcome.kind = "returned"
    /\ Len(run.errors) = 2
    /\ run.errors[1].kind = "Wrong username in link"
    /\ analysis_repo = Some(run.outcome.value)
    /\ \E i \in 1..Len(run.outcome.value.discussions) :
           run.outcome.value.discussions[i].message_links
               = <<(<<Origin, "other", Id2641549>>), (<<Origin, "ru_python", Letters>>)>>

(* the stored file read as it stands *)
AsStored(file) == [discussions |-> file.discussions, metadata |-> file.metadata]

(* C21: when a result is stored for the chat and date and force is false,
   analyze() returns the stored result and does nothing else: it loads no
   transcript, makes no token exchange and no completion call, saves nothing
   and leaves the stored result as it was; a second call with force=false
   returns the result of the first and makes no completion call. *)
C21_StoredResultReturned ==
    /\ (run.pc = "done" /\ run.found # Absent /\ ~run.force) =>
           /\ run.outcome = [kind |-> "loaded", value |-> AsStored(run.found[1])]
           /\ ~run.loaded
           /\ run.completions = 0
           /\ run.log = <<>>
           /\ access_token = None
           /\ token_expires_at = Absent
           /\ run.saved = Absent
           /\ analysis_repo = run.found
    /\ (run.pc = "done" /\ run.call = 2 /\ ~run.force) =>
           /\ run.outcome.kind = "loaded"
           /\ run.outcome.value = run.first.value
           /\ run.completions = 0

C21_Witness ==
    /\ run.pc = "done"
    /\ run.call = 2
    /\ ~run.force
    /\ run.first.kind = "returned"
    /\ Len(run.first.value.discussions) = 2
    /\ run.first.value.metadata.latency_seconds = 1
    /\ run.outcome.kind = "loaded"

(* the errors of the client that a completion call can end with *)
ClientErrors == {AuthError, TimeoutError}

(* C22: in the batch loop a completion call that fails with an error of the
   client does not end the run: every batch still gets its call and the run
   does not end with that error. *)
C22_CompletionFailureSkipsBatch ==
    (/\ run.batch_size # 0
     /\ run.pc = "done"
     /\ \E i \in 1..Len(run.log) : run.log[i].outcome.kind = "raised") =>
        /\ run.completions = Len(run.chunks)
        /\ ~(run.outcome.kind = "raised" /\ run.outcome.exc \in ClientErrors)

RECURSIVE Kept(_)
(* the discussions of the replies that parsed, in the order of the batches *)
Kept(log) ==
    IF log = <<>> THEN <<>>
    ELSE LET o == log[Len(log)].outcome
         IN  Kept(SubSeq(log, 1, Len(log) - 1))
                 \o (IF JsonLoads(ExtractJson(o.reply.text)).raised THEN <<>>
                     ELSE Get(o.reply.data, "discussions", <<>>))

AllReplies(log) == \A i \in 1..Len(log) : log[i].outcome.kind = "reply"

(* C23: in the batch loop a reply that fails JSON parsing adds nothing and
   ends nothing: the discussions collected are those of the replies that
   parsed, the run never ends with the parse error, and a saved result is
   built from the batches that parsed while analyzed_messages counts every
   message of the transcript. *)
C23_UnparsedBatchSkipped ==
    run.batch_size # 0 =>
        /\ AllReplies(run.log) => run.all_discussions = Kept(run.log)
        /\ (run.pc = "done" /\ run.outcome.kind = "raised") =>
               run.outcome.exc # Uncaught("JSONDecodeError")
        /\ (run.pc = "done" /\ run.outcome.kind = "returned") =>
               /\ Len(run.log) = Len(run.chunks)
               /\ run.outcome.value.discussions
                      = EnrichDiscussions([i \in 1..Len(MergeDiscussions(Kept(run.log))) |->
                                               ToDiscussion(MergeDiscussions(Kept(run.log))[i])])
               /\ analysis_repo[1].metadata.analyzed_messages = Len(run.file[1])
               /\ analysis_repo[1].metadata.total_messages = Len(run.file[1])

C23_Witness ==
    /\ run.pc = "done"
    /\ run.outcome.kind = "returned"
    /\ run.batch_size = 2
    /\ [i \in 1..Len(run.chunks) |-> Len(run.chunks[i])] = <<2, 2, 1>>
    /\ run.log[1].outcome.reply.data = [discussions |-> <<RecordA, RecordB>>]
    /\ JsonLoads(ExtractJson(run.log[2].outcome.reply.text)).raised
    /\ run.log[3].outcome.reply.data = [discussions |-> <<RecordA2>>]
    /\ Len(run.outcome.value.discussions) = 2
    /\ run.outcome.value.discussions[1].keywords = <<"k1", "k2">>
    /\ run.outcome.value.discussions[2].topic = <<"b">>
    /\ analysis_repo[1].metadata.analyzed_messages = 5

(* the pause of the claim, in seconds *)
PacingDelaySeconds == 1

(* C24: in the batch loop at least one second passes between the end of a
   completion call and the start of the next one. *)
C24_PacingDelay ==
    run.batch_size # 0 =>
        /\ \A i \in 1..(Len(run.log) - 1) :
               run.log[i + 1].sent_at >= run.log[i].ended_at + PacingDelaySeconds
        /\ (run.pc = "awaiting" /\ run.log # <<>>) =>
               run.start_time >= run.log[Len(run.log)].ended_at + PacingDelaySeconds

(* C25: when there is no transcript for the chat and date and the run is not
   answered from a stored result, it ends with DataNotFoundError having made
   no token exchange and no completion call and having saved nothing. *)
C25_MissingTranscript ==
    (run.file = Absent /\ run.pc # "start" /\ (run.found = Absent \/ run.force)) =>
        /\ run.completions = 0
        /\ run.log = <<>>
        /\ access_token = None
        /\ token_expires_at = Absent
        /\ run.saved = Absent
        /\ analysis_repo = run.found
        /\ run.pc \in {"load", "done"}
        /\ run.pc = "done" =>
               run.outcome = [kind |-> "raised", exc |-> Uncaught("DataNotFoundError")]

C25_Witness ==
    /\ run.pc = "done"
    /\ run.file = Absent
    /\ run.force
    /\ run.outcome = [kind |-> "raised", exc |-> Uncaught("DataNotFoundError")]
    /\ analysis_repo = Some(StoredAnalysis)

(* a published messages_fetched event that names its source and its day *)
FetchedWithSourceAndDay(m) ==
    /\ m.type = "message"
    /\ m.data.valid
    /\ m.data.dict
    /\ {"event", "chat", "date"} \subseteq DOMAIN m.data.value
    /\ m.data.value.event = "messages_fetched"
    /\ m.data.value.chat # ""
    /\ m.data.value.date # ""

(* the analyze() calls made for the message at place i *)
InvocationsFor(i) == {j \in 1..Len(daemon.invocations) : daemon.invocations[j].event = i}

(* the messages the loop has taken from the channel *)
Taken == 1..(Len(daemon.events) - Len(daemon.inbox))

(* C26: for every messages_fetched event with a non-empty source and day
   that the listen loop takes, the daemon calls analyze(source, day) exactly
   once, with force=True; the only such events left without a call are those
   that arrive after a shutdown has begun. *)
C26_FetchedEventAnalyzedOnce ==
    /\ \A i \in Taken :
           FetchedWithSourceAndDay(daemon.events[i]) =>
               \/ /\ Cardinality(InvocationsFor(i)) = 1
                  /\ \A j \in InvocationsFor(i) :
                         daemon.invocations[j].call
                             = [chat |-> daemon.events[i].data.value.chat,
                                date |-> daemon.events[i].data.value.date,
                                force |-> TRUE]
               \/ /\ InvocationsFor(i) = {}
                  /\ daemon.shutdown["signal"] # "none"
    /\ Handling => run.force

C26_Witness ==
    /\ daemon.lpc = "waiting"
    /\ daemon.shutdown["signal"] = "none"
    /\ Len(daemon.invocations) = 2
    /\ daemon.log = <<[event |-> 1, how |-> "analysis completed"],
                      [event |-> 2, how |-> "analysis completed"]>>
    /\ analysis_repo # Absent
    /\ Len(analysis_repo[1].discussions) = 2

(* the messages that call for no analysis: a malformed event, a
   fetch_failed event, an event of another type, a payload that is no JSON
   object *)
CallsForNothing(m) == m.type = "message" /\ ~FetchedWithSourceAndDay(m)

(* C27: an event that is malformed (no source or no day), a fetch_failed
   event or an event of another type never starts the pipeline: the step
   that takes it makes no analyze() call, leaves the stored result as it is
   and does not put the event back, and no analyze() call is ever made for
   such an event. *)
C27_OtherEventsDropped ==
    [][/\ \A j \in 1..Len(daemon.invocations) :
              FetchedWithSourceAndDay(daemon.events[daemon.invocations[j].event])
       /\ \A a, b \in 1..Len(daemon.log) : daemon.log[a].event = daemon.log[b].event => a = b
       /\ (/\ daemon.lpc = "waiting"
           /\ daemon.inbox # <<>>
           /\ daemon'.inbox # daemon.inbox
           /\ CallsForNothing(Head(daemon.inbox))) =>
              /\ daemon'.inbox = Tail(daemon.inbox)
              /\ daemon'.events = daemon.events
              /\ daemon'.invocations = daemon.invocations
              /\ daemon'.lpc # "handling"
              /\ UNCHANGED <<run, analysis_repo>>]_<<vars, svars>>

C27_Witness ==
    /\ daemon.log = <<[event |-> 1, how |-> "missing chat or date"],
                      [event |-> 2, how |-> "fetch failed"]>>
    /\ daemon.events[1].data.value.date = ""
    /\ daemon.inbox = <<>>
    /\ daemon.invocations = <<>>
    /\ daemon.lpc = "waiting"
    /\ analysis_repo = Some(StoredAnalysis)

(* C28: while no shutdown has been asked for, no event ends the listen
   loop: whatever the events were (a payload that is no JSON, a handler that
   raises, a missing transcript, a failed analysis), the loop is awaiting the
   next message or handling one, still subscribed, and every message taken
   before has been dealt with in its turn. *)
C28_NoEventStopsDaemon ==
    daemon.shutdown["signal"] = "none" =>
        /\ daemon.lpc \in {"waiting", "handling"}
        /\ daemon.running
        /\ daemon.subscribed
        /\ \A k \in 1..Len(daemon.log) : daemon.log[k].event = k
        /\ Len(daemon.log) = Cardinality(Taken) - (IF Handling THEN 1 ELSE 0)

C28_Witness ==
    /\ daemon.shutdown["signal"] = "none"
    /\ daemon.log = <<[event |-> 1, how |-> "JSONDecodeError"],
                      [event |-> 2, how |-> "analysis failed"]>>
    /\ ~daemon.events[1].data.valid
    /\ run.outcome = [kind |-> "raised", exc |-> Uncaught("DataNotFoundError")]
    /\ daemon.lpc = "waiting"
    /\ daemon.running

(* C29: the client and the subscription are released only when the listen
   loop is not inside the handling of an event; in particular the client is
   never closed while a completion request of the current event is pending. *)
C29_ShutdownWaitsForAnalysis ==
    Handling =>
        /\ daemon.subscribed
        /\ daemon.redis_open
        /\ ~daemon.client_closed

(* the place of a task id in the order of the enqueues *)
Position(order, task_id) == CHOOSE i \in 1..Len(order) : order[i] = task_id

(* the workers that get_next_task has just handed a task *)
Served == {w \in Workers : task_queue.workers[w].pc = "mark"}

(* C30: the task a worker takes has the highest priority of the tasks that
   were queued when it looked, and among the tasks of that priority it is
   the one that was enqueued first. *)
C30_HighestPriorityFirst ==
    \A w \in Served :
        LET me == task_queue.workers[w]
        IN  \A o \in DOMAIN me.zset :
                /\ me.zset[o] <= me.priority
                /\ me.zset[o] = me.priority =>
                       Position(me.order, me.task_id) <= Position(me.order, o)

(* the part of C30 that holds: no queued task had a higher priority than the
   task taken *)
C30_HighestPriority ==
    \A w \in Served :
        \A o \in DOMAIN task_queue.workers[w].zset :
            task_queue.workers[w].zset[o] <= task_queue.workers[w].priority

(* the workers by which execute_analysis has been started for a task that
   mark_task_completed has not yet removed from the queue *)
Executing == {w \in Workers : task_queue.workers[w].pc \in {"execute", "zrem"}}

(* C31: dequeue is at-most-once: no task of the queue is taken and executed
   by more than one worker, so two workers that are executing at the same
   time hold different tasks. *)
C31_AtMostOnceDequeue ==
    \A w \in Executing :
        \A o \in Executing \ {w} :
            task_queue.workers[w].task_id # task_queue.workers[o].task_id

(* ceil(n / batch_size) *)
CeilDiv(n, batch_size) == (n + batch_size - 1) \div batch_size

(* the completion calls of the run that have been entered and have not yet
   returned or raised *)
CallsInFlight == run.completions - Len(run.log)

(* C32: in one analyze() invocation with a batch size the batches are
   processed one after the other in source order, one completion call per
   batch: call k is made for batch k, it is entered only after the reply of
   call k-1 has been received and parsed, at most one call is in flight, and
   a run that returns has made exactly ceil(n / batch_size) calls. *)
C32_BatchesSequential ==
    run.batch_size # 0 =>
        /\ CallsInFlight \in {0, 1}
        /\ CallsInFlight = 1 <=> run.pc = "awaiting"
        /\ \A k \in 1..Len(run.log) :
               /\ run.log[k].index = k
               /\ run.log[k].sent_at <= run.log[k].ended_at
               /\ k < Len(run.log) =>
                      /\ run.log[k].outcome.kind = "reply"
                      /\ run.log[k].ended_at <= run.log[k + 1].sent_at
        /\ run.pc = "awaiting" =>
               /\ run.idx = run.completions
               /\ run.idx \in 1..Len(run.chunks)
               /\ \A k \in 1..Len(run.log) :
                      /\ run.log[k].outcome.kind = "reply"
                      /\ run.log[k].ended_at <= run.start_time
        /\ run.loaded => Concat(run.chunks) = run.messages
        /\ run.outcome.kind = "returned" =>
               /\ run.completions = CeilDiv(Len(run.messages), run.batch_size)
               /\ Len(run.log) = run.completions

(* a run of three batches has returned, and its second call was entered
   after time had passed in the first *)
C32_Witness ==
    /\ run.batch_size # 0
    /\ run.outcome.kind = "returned"
    /\ run.completions = 3
    /\ Len(run.messages) = 5
    /\ run.log[1].ended_at > run.log[1].sent_at
    /\ run.log[2].sent_at = run.log[1].ended_at

RECURSIVE CompletionStages(_)
(* the stages of n completion calls, each followed by the parsing of its
   reply *)
CompletionStages(n) ==
    IF n = 0 THEN <<>> ELSE <<"complete", "parse">> \o CompletionStages(n - 1)

(* the stages of a run that saves, in their order *)
StagesOf(n, merges, validates) ==
    <<"check", "load">> \o CompletionStages(n)
        \o (IF merges THEN <<"merge">> ELSE <<>>)
        \o <<"enrich">>
        \o (IF validates THEN <<"validate">> ELSE <<>>)
        \o <<"save">>

(* the completion calls a run makes for its messages *)
CallsOf(r) == IF r.batch_size # 0 THEN Len(r.chunks) ELSE 1

(* what the run has saved is what the repository holds and, once the run
   has returned, what it returned *)
ReturnsWhatItSaved ==
    /\ analysis_repo # Absent
    /\ LoadAnalysis(analysis_repo[1]) = [kind |-> "loaded", value |-> run.saved[1]]
    /\ run.pc \in {"return", "done"}
    /\ run.pc = "done" => run.outcome = [kind |-> "returned", value |-> run.saved[1]]

(* C33 as stated: every run that is not short-circuited and saves has gone
   through load, the completion and parsing of every batch, merge, enrich,
   validate and save in that order, has saved once, and returns what it
   saved. *)
C33_AllStagesInOrder ==
    /\ run.outcome.kind = "returned" => run.saved # Absent
    /\ run.saved # Absent =>
           /\ run.stages = StagesOf(CallsOf(run), TRUE, TRUE)
           /\ ReturnsWhatItSaved

(* C33, amended: the stages are gone through in that order and the result
   is saved once, after every batch and after the enrichment, and returned
   as saved; the merge is a stage of the runs with a batch size only, and
   the validation a stage of the services built with validate_links only. *)
C33_StagesInOrder ==
    /\ run.outcome.kind = "returned" => run.saved # Absent
    /\ run.saved # Absent =>
           /\ run.stages = StagesOf(CallsOf(run), run.batch_size # 0, run.validate_links)
           /\ Len(run.log) = CallsOf(run)
           /\ AllReplies(run.log)
           /\ run.validate_links => run.validated
           /\ ReturnsWhatItSaved

(* a run of three batches with the validation has returned what it saved *)
C33_Witness ==
    /\ run.outcome.kind = "returned"
    /\ run.validate_links
    /\ run.batch_size # 0
    /\ CallsOf(run) = 3
    /\ run.saved[1].discussions # <<>>

(* the handler has returned from the analysis of an event *)
AnalysisEnded(how) == how \in {"analysis completed", "analysis failed"}

(* the entries of the log for the analyses that have ended *)
EndedAnalyses == {i \in 1..Len(daemon.log) : AnalysisEnded(daemon.log[i].how)}

(* C34: the daemon processes the events one at a time in the order of their
   arrival: the analysis of an event has ended before the handler of a later
   event starts, and at most one analyze() run is in progress. *)
C34_OneEventAtATime ==
    /\ \A i \in 1..Len(daemon.log) : \A j \in 1..Len(daemon.log) :
           i < j => daemon.log[i].event < daemon.log[j].event
    /\ \A k \in 1..Len(daemon.invocations) : \A l \in 1..Len(daemon.invocations) :
           k < l => daemon.invocations[k].event < daemon.invocations[l].event
    /\ \A k \in 1..Len(daemon.invocations) :
           (k < Len(daemon.invocations) \/ ~Handling) =>
               \E i \in EndedAnalyses : daemon.log[i].event = daemon.invocations[k].event
    /\ Len(daemon.invocations) - Cardinality(EndedAnalyses) = IF Handling THEN 1 ELSE 0
    /\ Handling =>
           /\ daemon.invocations[Len(daemon.invocations)].event = Current(daemon)
           /\ \A i \in 1..Len(daemon.log) : daemon.log[i].event < Current(daemon)
    /\ (run # NotRun /\ run.pc # "done") => Handling

(* two events have been analyzed, the second after the first *)
C34_Witness ==
    /\ Len(daemon.invocations) = 2
    /\ Cardinality(EndedAnalyses) = 2
    /\ daemon.invocations[1].event < daemon.invocations[2].event

(* stop() has been called on the subscriber and listen() has not returned *)
StopCalled == ~daemon.running /\ daemon.lpc # "stopped"

(* one step of the daemon after stop(): no analysis is started, the
   iteration that is under way ends, and the next message the loop takes
   ends the loop without reaching _handle_event *)
StepAfterStop ==
    ~daemon.running =>
        /\ ~daemon'.running
        /\ daemon'.invocations = daemon.invocations
        /\ daemon.lpc = "waiting" =>
               /\ daemon'.lpc \in {"waiting", "stopped"}
               /\ daemon'.log = daemon.log
               /\ daemon'.inbox # daemon.inbox => daemon'.lpc = "stopped"
        /\ daemon.lpc = "stopped" =>
               /\ daemon'.lpc = "stopped"
               /\ daemon'.log = daemon.log
               /\ daemon'.inbox = daemon.inbox

(* C35: once stop() has been called on the subscriber no event received
   afterwards is dispatched to the handler, the loop ends after the
   iteration that is under way, and listen() returns with the subscriber
   marked as not running. *)
C35_StopEndsListening ==
    /\ [][StepAfterStop]_<<vars, svars>>
    /\ [](daemon.lpc = "stopped" => ~daemon.running)
    /\ StopCalled ~> (daemon.lpc = "stopped" /\ ~daemon.running)

(* listen() has returned on a messages_fetched event that arrived after
   stop(): the event was taken and no analysis was started for it *)
C35_Witness ==
    /\ daemon.lpc = "stopped"
    /\ Current(daemon) >= 1
    /\ FetchedWithSourceAndDay(daemon.events[Current(daemon)])
    /\ InvocationsFor(Current(daemon)) = {}
    /\ \A i \in 1..Len(daemon.log) : daemon.log[i].event # Current(daemon)

RECURSIVE KeywordsSeen(_, _)
(* the keywords of the records of a key, in the order in which the merge
   sees them *)
KeywordsSeen(discussions, key) ==
    IF discussions = <<>> THEN <<>>
    ELSE (IF KeyOf(Head(discussions).topic) = key
          THEN Get(Head(discussions), "keywords", <<>>)
          ELSE <<>>) \o KeywordsSeen(Tail(discussions), key)

(* the last n elements of xs *)
LastOf(xs, n) == SubSeq(xs, Max(1, Len(xs) - n + 1), Len(xs))

(* the n unique keywords seen most recently *)
MostRecentUnique(xs, n) == Elements(LastOf(Dedupe(xs), n))

(* C36: for every key the merged keywords hold no duplicates and at most 5
   entries, and when the records of the key carry more than 5 distinct
   keywords the 5 retained are the unique ones seen most recently. *)
C36_KeywordsMostRecentFive ==
    merging.done =>
        \A i \in 1..Len(merging.merged) :
            LET entry == merging.merged[i]
                seen == KeywordsSeen(merging.discussions, KeyOf(entry.topic))
            IN  /\ Len(entry.keywords) <= KeywordCap
                /\ Cardinality(Elements(entry.keywords)) = Len(entry.keywords)
                /\ Cardinality(Elements(seen)) > KeywordCap =>
                       Elements(entry.keywords) = MostRecentUnique(seen, KeywordCap)

(* the part of C36 that holds: no duplicates, at most 5 entries, and the
   entries are the first 5 unique keywords seen *)
C36_KeywordsFirstFive ==
    merging.done =>
        \A i \in 1..Len(merging.merged) :
            LET entry == merging.merged[i]
                seen == KeywordsSeen(merging.discussions, KeyOf(entry.topic))
            IN  /\ Len(entry.keywords) <= KeywordCap
                /\ Cardinality(Elements(entry.keywords)) = Len(entry.keywords)
                /\ entry.keywords = Take(Dedupe(seen), KeywordCap)

(* the first record of a key among the records given to the merge *)
FirstRecord(discussions, key) == discussions[SetMin(PlacesOf(discussions, key))]

(* C37: for every key the merged sentiment is the sentiment of the first
   record seen for the key, neutral when that record carries none, whatever
   the later records of the key say, those that replace the summary and the
   expert comment by their higher practical value included. *)
C37_SentimentOfFirstRecord ==
    merging.done =>
        \A i \in 1..Len(merging.merged) :
            LET entry == merging.merged[i]
                first == FirstRecord(merging.discussions, KeyOf(entry.topic))
            IN  entry.sentiment = Get(first, "sentiment", "neutral")

(* a key whose second record has another sentiment and the higher practical
   value: the entry has the summary of the second record and the sentiment
   of the first *)
C37_Witness ==
    /\ merging.done
    /\ Len(merging.discussions) = 2
    /\ Len(merging.merged) = 1
    /\ "sentiment" \in DOMAIN merging.discussions[1]
    /\ "sentiment" \in DOMAIN merging.discussions[2]
    /\ merging.discussions[2].sentiment # merging.discussions[1].sentiment
    /\ merging.merged[1].summary = merging.discussions[2].summary
    /\ merging.merged[1].summary # merging.discussions[1].summary
    /\ merging.merged[1].sentiment = merging.discussions[1].sentiment

(* a key whose first record carries no sentiment and whose second does *)
C37_NeutralSeed ==
    /\ merging.done
    /\ Len(merging.discussions) = 2
    /\ Len(merging.merged) = 1
    /\ "sentiment" \notin DOMAIN merging.discussions[1]
    /\ "sentiment" \in DOMAIN merging.discussions[2]
    /\ merging.merged[1].sentiment = "neutral"

(* the errors of the client's taxonomy *)
ClassifiedErrors == {"AuthError", "RateLimitError", "TimeoutError", "APIError"}

(* C38: every call of the client that fails raises AuthError,
   RateLimitError, TimeoutError or APIError, whatever failed: the exchange
   or an attempt of the request, a transport failure that is no timeout
   included. *)
C38_FailuresClassified ==
    \A c \in Callers :
        Done(c) => calls[c].result.kind \in ClassifiedErrors \cup {"response"}

(* the part of C38 that holds: every failure of the OAuth exchange leaves
   as AuthError *)
C38_ExchangeFailuresClassified ==
    \A c \in Callers :
        (Done(c) /\ calls[c].oauth.kind \in OAuthFailures) =>
            calls[c].result.kind = "AuthError"

(* a run with a batch size has ended after a reply to every batch *)
EndedWithAllReplies ==
    /\ run.batch_size # 0
    /\ run.pc = "done"
    /\ run.loaded
    /\ Len(run.log) >= 1
    /\ Len(run.log) = Len(run.chunks)
    /\ AllReplies(run.log)

(* C39: in the multi-batch path no content of a reply aborts the run: a run
   that got a reply to every batch drops the bad data of a batch and goes on
   to merge, enrich and save, so it returns. *)
C39_NoReplyAbortsRun ==
    EndedWithAllReplies => run.outcome.kind = "returned" /\ run.saved # Absent

(* the part of C39 that holds: a reply that does not parse, or that has no
   discussions field, aborts nothing; a run ends without saving only with
   the ValidationError of AnalysisResult *)
C39_OnlySchemaViolationsAbort ==
    (EndedWithAllReplies /\ run.outcome.kind # "returned") =>
        /\ run.outcome = [kind |-> "raised", exc |-> Uncaught("ValidationError")]
        /\ \E k \in 1..Len(run.log) :
               \E i \in 1..Len(BatchDiscussions(run.log[k].outcome.reply)) :
                   ~ValidDiscussion(BatchDiscussions(run.log[k].outcome.reply)[i])

====
